---- MODULE Spec2Model ----
(***************************************************************************)
(* Dungeon puzzle engine (apps/ui-dungeon/src/utils/gameEngine.ts).        *)
(*                                                                         *)
(* The engine is a set of pure functions over GameState records.  They are *)
(* modelled as operators that compute what the TypeScript computes; the    *)
(* state machine is a caller that holds one GameState, calls               *)
(* executeAction / undoMove / resetGame on it and keeps the state that is  *)
(* returned.                                                               *)
(*                                                                         *)
(* Conventions                                                             *)
(*   - Position is [x, y], 0-indexed as in the code; grid[y][x] of the     *)
(*     code is grid[y + 1][x + 1] here (TLA+ sequences start at 1).        *)
(*   - An optional boolean field (isOpen, isFixed) is one of the strings   *)
(*     "true", "false", "undefined"; Truthy is JavaScript truthiness.      *)
(*   - An optional object field of a MoveRecord is <<>> (undefined) or     *)
(*     <<v>>.                                                              *)
(*   - Date.now() is "set", a null timestamp is "null"; uuid and the       *)
(*     timestamp of a MoveRecord are left out (they differ on every run).  *)
(*   - Levels have a rectangular layout that matches gridSize and a        *)
(*     playerStart inside the grid (getTileAt throws otherwise).           *)
(*   - A raw layout value that is not a string is one of NonStringValues;  *)
(*     an exception that reaches the caller is recorded in thrown.         *)
(*   - A JSON text is modelled by the value it parses to; a text of the    *)
(*     ASCII snapshot is the sequence of its lines, a line the sequence of *)
(*     its glyphs.                                                         *)
(*   - input is the argument of the last engine call as the call leaves    *)
(*     it; result.newStateIs names the object returned as newState.        *)
(*                                                                         *)
(* The AI panel (components/AIPanel.tsx) executes a submitted batch of     *)
(* moves one by one through DungeonGame.handleAIAction.                    *)
(***************************************************************************)
EXTENDS Integers, Sequences, FiniteSets, TLC

VARIABLES gameState, input, call, result,
          moves, moveIndex, isRunning, plannedMoves,
          thrown, returned

\* The batch of planned moves the AI panel is executing.
batchVars == <<moves, moveIndex, isRunning, plannedMoves>>

\* What the last call threw, and what the last call of a utility outside the
\* engine (level storage, prompt generation) returned.
ioVars == <<thrown, returned>>

vars == <<gameState, input, call, result, batchVars, ioVars>>

\* Longest move history explored from createGame.
MaxTurn == 3

\* Longest move history explored on the key/door example level.
ScenarioTurns == 6

\* Longest batch of planned moves.
MaxBatch == 3

\* Longest run of turns on one game: one more than the floor of maxTurns.
TurnBound == 201

-----------------------------------------------------------------------------
(* Types                                                                   *)

Undefined == "undefined"

None == <<>>

Some(v) == <<v>>

Truthy(v) == v = "true"

KeyColor == {"RED", "BLUE", "GREEN", "YELLOW"}

TileType ==
  {"EMPTY", "WALL", "GOAL",
   "KEY_RED", "KEY_BLUE", "KEY_GREEN", "KEY_YELLOW",
   "DOOR_RED", "DOOR_BLUE", "DOOR_GREEN", "DOOR_YELLOW",
   "BLOCK", "TRAP", "PORTAL_A", "PORTAL_B"}

VALID_TILE_TYPES == TileType

DIRECTION_DELTAS ==
  [UP    |-> [x |-> 0, y |-> -1],
   DOWN  |-> [x |-> 0, y |-> 1],
   LEFT  |-> [x |-> -1, y |-> 0],
   RIGHT |-> [x |-> 1, y |-> 0]]

MoveDirection == {"UP", "DOWN", "LEFT", "RIGHT"}

\* The actions executeAction dispatches on.
LegalActions == MoveDirection \cup {"INTERACT"}

\* A value of the action parameter that matches neither branch of the dispatch.
IllegalActions == {"WAIT"}

\* type.startsWith('KEY_')
IsKey(type) == type \in {"KEY_RED", "KEY_BLUE", "KEY_GREEN", "KEY_YELLOW"}

\* type.startsWith('DOOR_')
IsDoor(type) == type \in {"DOOR_RED", "DOOR_BLUE", "DOOR_GREEN", "DOOR_YELLOW"}

\* type.split('_')[1]
getKeyColor(type) ==
  CASE type \in {"KEY_RED", "DOOR_RED"} -> "RED"
    [] type \in {"KEY_BLUE", "DOOR_BLUE"} -> "BLUE"
    [] type \in {"KEY_GREEN", "DOOR_GREEN"} -> "GREEN"
    [] type \in {"KEY_YELLOW", "DOOR_YELLOW"} -> "YELLOW"
    [] OTHER -> Undefined

\* color.toLowerCase()
toLowerCase(color) ==
  CASE color = "RED" -> "red"
    [] color = "BLUE" -> "blue"
    [] color = "GREEN" -> "green"
    [] color = "YELLOW" -> "yellow"
    [] OTHER -> color

\* keys.includes(color)
includes(keys, color) == \E i \in 1..Len(keys) : keys[i] = color

\* The object literal { type }.
MkTile(type) == [type |-> type, isFixed |-> Undefined, isOpen |-> Undefined]

-----------------------------------------------------------------------------
(* Level ingestion                                                         *)

\* The strings of the raw tile values of this model, each with its characters.
CharTable ==
     ("" :> <<>>)
  @@ ("   " :> <<" ", " ", " ">>)
  @@ (" !" :> <<" ", "!">>)
  @@ (" #" :> <<" ", "#">>)
  @@ (" ." :> <<" ", ".">>)
  @@ (" BLOCK " :> <<" ", "B", "L", "O", "C", "K", " ">>)
  @@ (" BOX" :> <<" ", "B", "O", "X">>)
  @@ (" CRATE" :> <<" ", "C", "R", "A", "T", "E">>)
  @@ (" DOOR_BLUE " :> <<" ", "D", "O", "O", "R", "_", "B", "L", "U", "E", " ">>)
  @@ (" DOOR_GREEN " :> <<" ", "D", "O", "O", "R", "_", "G", "R", "E", "E", "N", " ">>)
  @@ (" DOOR_RED " :> <<" ", "D", "O", "O", "R", "_", "R", "E", "D", " ">>)
  @@ (" DOOR_YELLOW " :> <<" ", "D", "O", "O", "R", "_", "Y", "E", "L", "L", "O", "W", " ">>)
  @@ (" E" :> <<" ", "E">>)
  @@ (" EMPTY " :> <<" ", "E", "M", "P", "T", "Y", " ">>)
  @@ (" G" :> <<" ", "G">>)
  @@ (" GOAL " :> <<" ", "G", "O", "A", "L", " ">>)
  @@ (" KEY_BLUE " :> <<" ", "K", "E", "Y", "_", "B", "L", "U", "E", " ">>)
  @@ (" KEY_GREEN " :> <<" ", "K", "E", "Y", "_", "G", "R", "E", "E", "N", " ">>)
  @@ (" KEY_RED " :> <<" ", "K", "E", "Y", "_", "R", "E", "D", " ">>)
  @@ (" KEY_YELLOW " :> <<" ", "K", "E", "Y", "_", "Y", "E", "L", "L", "O", "W", " ">>)
  @@ (" P" :> <<" ", "P">>)
  @@ (" PORTAL" :> <<" ", "P", "O", "R", "T", "A", "L">>)
  @@ (" PORTALA" :> <<" ", "P", "O", "R", "T", "A", "L", "A">>)
  @@ (" PORTALB" :> <<" ", "P", "O", "R", "T", "A", "L", "B">>)
  @@ (" PORTAL_A " :> <<" ", "P", "O", "R", "T", "A", "L", "_", "A", " ">>)
  @@ (" PORTAL_B " :> <<" ", "P", "O", "R", "T", "A", "L", "_", "B", " ">>)
  @@ (" TRAP " :> <<" ", "T", "R", "A", "P", " ">>)
  @@ (" W" :> <<" ", "W">>)
  @@ (" WALL " :> <<" ", "W", "A", "L", "L", " ">>)
  @@ (" X" :> <<" ", "X">>)
  @@ ("!" :> <<"!">>)
  @@ ("#" :> <<"#">>)
  @@ ("." :> <<".">>)
  @@ ("0" :> <<"0">>)
  @@ ("?" :> <<"?">>)
  @@ ("@" :> <<"@">>)
  @@ ("A" :> <<"A">>)
  @@ ("BLOCK" :> <<"B", "L", "O", "C", "K">>)
  @@ ("BLOCKS" :> <<"B", "L", "O", "C", "K", "S">>)
  @@ ("BOX" :> <<"B", "O", "X">>)
  @@ ("Block" :> <<"B", "l", "o", "c", "k">>)
  @@ ("CRATE" :> <<"C", "R", "A", "T", "E">>)
  @@ ("D" :> <<"D">>)
  @@ ("DOOR" :> <<"D", "O", "O", "R">>)
  @@ ("DOOR BLUE" :> <<"D", "O", "O", "R", " ", "B", "L", "U", "E">>)
  @@ ("DOOR GREEN" :> <<"D", "O", "O", "R", " ", "G", "R", "E", "E", "N">>)
  @@ ("DOOR RED" :> <<"D", "O", "O", "R", " ", "R", "E", "D">>)
  @@ ("DOOR YELLOW" :> <<"D", "O", "O", "R", " ", "Y", "E", "L", "L", "O", "W">>)
  @@ ("DOOR-BLUE" :> <<"D", "O", "O", "R", "-", "B", "L", "U", "E">>)
  @@ ("DOOR-GREEN" :> <<"D", "O", "O", "R", "-", "G", "R", "E", "E", "N">>)
  @@ ("DOOR-RED" :> <<"D", "O", "O", "R", "-", "R", "E", "D">>)
  @@ ("DOOR-YELLOW" :> <<"D", "O", "O", "R", "-", "Y", "E", "L", "L", "O", "W">>)
  @@ ("DOORBLUE" :> <<"D", "O", "O", "R", "B", "L", "U", "E">>)
  @@ ("DOORGREEN" :> <<"D", "O", "O", "R", "G", "R", "E", "E", "N">>)
  @@ ("DOORRED" :> <<"D", "O", "O", "R", "R", "E", "D">>)
  @@ ("DOORYELLOW" :> <<"D", "O", "O", "R", "Y", "E", "L", "L", "O", "W">>)
  @@ ("DOOR_BLUE" :> <<"D", "O", "O", "R", "_", "B", "L", "U", "E">>)
  @@ ("DOOR_GREEN" :> <<"D", "O", "O", "R", "_", "G", "R", "E", "E", "N">>)
  @@ ("DOOR_RED" :> <<"D", "O", "O", "R", "_", "R", "E", "D">>)
  @@ ("DOOR_YELLOW" :> <<"D", "O", "O", "R", "_", "Y", "E", "L", "L", "O", "W">>)
  @@ ("Door_blue" :> <<"D", "o", "o", "r", "_", "b", "l", "u", "e">>)
  @@ ("Door_green" :> <<"D", "o", "o", "r", "_", "g", "r", "e", "e", "n">>)
  @@ ("Door_red" :> <<"D", "o", "o", "r", "_", "r", "e", "d">>)
  @@ ("Door_yellow" :> <<"D", "o", "o", "r", "_", "y", "e", "l", "l", "o", "w">>)
  @@ ("E" :> <<"E">>)
  @@ ("EMPTY" :> <<"E", "M", "P", "T", "Y">>)
  @@ ("Empty" :> <<"E", "m", "p", "t", "y">>)
  @@ ("F" :> <<"F">>)
  @@ ("FIXED" :> <<"F", "I", "X", "E", "D">>)
  @@ ("FIXED_BLOCK" :> <<"F", "I", "X", "E", "D", "_", "B", "L", "O", "C", "K">>)
  @@ ("Fixed Block" :> <<"F", "i", "x", "e", "d", " ", "B", "l", "o", "c", "k">>)
  @@ ("G" :> <<"G">>)
  @@ ("GOAL" :> <<"G", "O", "A", "L">>)
  @@ ("GOAL!" :> <<"G", "O", "A", "L", "!">>)
  @@ ("Goal" :> <<"G", "o", "a", "l">>)
  @@ ("KEY" :> <<"K", "E", "Y">>)
  @@ ("KEY BLUE" :> <<"K", "E", "Y", " ", "B", "L", "U", "E">>)
  @@ ("KEY GREEN" :> <<"K", "E", "Y", " ", "G", "R", "E", "E", "N">>)
  @@ ("KEY RED" :> <<"K", "E", "Y", " ", "R", "E", "D">>)
  @@ ("KEY YELLOW" :> <<"K", "E", "Y", " ", "Y", "E", "L", "L", "O", "W">>)
  @@ ("KEY-BLUE" :> <<"K", "E", "Y", "-", "B", "L", "U", "E">>)
  @@ ("KEY-GREEN" :> <<"K", "E", "Y", "-", "G", "R", "E", "E", "N">>)
  @@ ("KEY-RED" :> <<"K", "E", "Y", "-", "R", "E", "D">>)
  @@ ("KEY-YELLOW" :> <<"K", "E", "Y", "-", "Y", "E", "L", "L", "O", "W">>)
  @@ ("KEYBLUE" :> <<"K", "E", "Y", "B", "L", "U", "E">>)
  @@ ("KEYGREEN" :> <<"K", "E", "Y", "G", "R", "E", "E", "N">>)
  @@ ("KEYRED" :> <<"K", "E", "Y", "R", "E", "D">>)
  @@ ("KEYYELLOW" :> <<"K", "E", "Y", "Y", "E", "L", "L", "O", "W">>)
  @@ ("KEY_BLUE" :> <<"K", "E", "Y", "_", "B", "L", "U", "E">>)
  @@ ("KEY_GREEN" :> <<"K", "E", "Y", "_", "G", "R", "E", "E", "N">>)
  @@ ("KEY_PURPLE" :> <<"K", "E", "Y", "_", "P", "U", "R", "P", "L", "E">>)
  @@ ("KEY_RED" :> <<"K", "E", "Y", "_", "R", "E", "D">>)
  @@ ("KEY_YELLOW" :> <<"K", "E", "Y", "_", "Y", "E", "L", "L", "O", "W">>)
  @@ ("KEY__RED" :> <<"K", "E", "Y", "_", "_", "R", "E", "D">>)
  @@ ("Key_blue" :> <<"K", "e", "y", "_", "b", "l", "u", "e">>)
  @@ ("Key_green" :> <<"K", "e", "y", "_", "g", "r", "e", "e", "n">>)
  @@ ("Key_red" :> <<"K", "e", "y", "_", "r", "e", "d">>)
  @@ ("Key_yellow" :> <<"K", "e", "y", "_", "y", "e", "l", "l", "o", "w">>)
  @@ ("O" :> <<"O">>)
  @@ ("P" :> <<"P">>)
  @@ ("PORTAL" :> <<"P", "O", "R", "T", "A", "L">>)
  @@ ("PORTAL A" :> <<"P", "O", "R", "T", "A", "L", " ", "A">>)
  @@ ("PORTAL B" :> <<"P", "O", "R", "T", "A", "L", " ", "B">>)
  @@ ("PORTAL-A" :> <<"P", "O", "R", "T", "A", "L", "-", "A">>)
  @@ ("PORTAL-B" :> <<"P", "O", "R", "T", "A", "L", "-", "B">>)
  @@ ("PORTALA" :> <<"P", "O", "R", "T", "A", "L", "A">>)
  @@ ("PORTALB" :> <<"P", "O", "R", "T", "A", "L", "B">>)
  @@ ("PORTALC" :> <<"P", "O", "R", "T", "A", "L", "C">>)
  @@ ("PORTAL_A" :> <<"P", "O", "R", "T", "A", "L", "_", "A">>)
  @@ ("PORTAL_B" :> <<"P", "O", "R", "T", "A", "L", "_", "B">>)
  @@ ("PORTAL_C" :> <<"P", "O", "R", "T", "A", "L", "_", "C">>)
  @@ ("Portal_a" :> <<"P", "o", "r", "t", "a", "l", "_", "a">>)
  @@ ("Portal_b" :> <<"P", "o", "r", "t", "a", "l", "_", "b">>)
  @@ ("T" :> <<"T">>)
  @@ ("TRAP" :> <<"T", "R", "A", "P">>)
  @@ ("Trap" :> <<"T", "r", "a", "p">>)
  @@ ("W" :> <<"W">>)
  @@ ("W W" :> <<"W", " ", "W">>)
  @@ ("WALL" :> <<"W", "A", "L", "L">>)
  @@ ("WALLS" :> <<"W", "A", "L", "L", "S">>)
  @@ ("Wall" :> <<"W", "a", "l", "l">>)
  @@ ("X" :> <<"X">>)
  @@ ("Z" :> <<"Z">>)
  @@ ("block" :> <<"b", "l", "o", "c", "k">>)
  @@ ("box" :> <<"b", "o", "x">>)
  @@ ("crate" :> <<"c", "r", "a", "t", "e">>)
  @@ ("door blue" :> <<"d", "o", "o", "r", " ", "b", "l", "u", "e">>)
  @@ ("door green" :> <<"d", "o", "o", "r", " ", "g", "r", "e", "e", "n">>)
  @@ ("door red" :> <<"d", "o", "o", "r", " ", "r", "e", "d">>)
  @@ ("door yellow" :> <<"d", "o", "o", "r", " ", "y", "e", "l", "l", "o", "w">>)
  @@ ("door-blue" :> <<"d", "o", "o", "r", "-", "b", "l", "u", "e">>)
  @@ ("door-green" :> <<"d", "o", "o", "r", "-", "g", "r", "e", "e", "n">>)
  @@ ("door-red" :> <<"d", "o", "o", "r", "-", "r", "e", "d">>)
  @@ ("door-yellow" :> <<"d", "o", "o", "r", "-", "y", "e", "l", "l", "o", "w">>)
  @@ ("door_blue" :> <<"d", "o", "o", "r", "_", "b", "l", "u", "e">>)
  @@ ("door_green" :> <<"d", "o", "o", "r", "_", "g", "r", "e", "e", "n">>)
  @@ ("door_red" :> <<"d", "o", "o", "r", "_", "r", "e", "d">>)
  @@ ("door_yellow" :> <<"d", "o", "o", "r", "_", "y", "e", "l", "l", "o", "w">>)
  @@ ("doorblue" :> <<"d", "o", "o", "r", "b", "l", "u", "e">>)
  @@ ("doorgreen" :> <<"d", "o", "o", "r", "g", "r", "e", "e", "n">>)
  @@ ("doorred" :> <<"d", "o", "o", "r", "r", "e", "d">>)
  @@ ("dooryellow" :> <<"d", "o", "o", "r", "y", "e", "l", "l", "o", "w">>)
  @@ ("e" :> <<"e">>)
  @@ ("empty" :> <<"e", "m", "p", "t", "y">>)
  @@ ("f" :> <<"f">>)
  @@ ("fixed-block" :> <<"f", "i", "x", "e", "d", "-", "b", "l", "o", "c", "k">>)
  @@ ("fixed_block" :> <<"f", "i", "x", "e", "d", "_", "b", "l", "o", "c", "k">>)
  @@ ("g" :> <<"g">>)
  @@ ("goal" :> <<"g", "o", "a", "l">>)
  @@ ("junk" :> <<"j", "u", "n", "k">>)
  @@ ("key - red" :> <<"k", "e", "y", " ", "-", " ", "r", "e", "d">>)
  @@ ("key blue" :> <<"k", "e", "y", " ", "b", "l", "u", "e">>)
  @@ ("key green" :> <<"k", "e", "y", " ", "g", "r", "e", "e", "n">>)
  @@ ("key red" :> <<"k", "e", "y", " ", "r", "e", "d">>)
  @@ ("key yellow" :> <<"k", "e", "y", " ", "y", "e", "l", "l", "o", "w">>)
  @@ ("key-blue" :> <<"k", "e", "y", "-", "b", "l", "u", "e">>)
  @@ ("key-green" :> <<"k", "e", "y", "-", "g", "r", "e", "e", "n">>)
  @@ ("key-red" :> <<"k", "e", "y", "-", "r", "e", "d">>)
  @@ ("key-yellow" :> <<"k", "e", "y", "-", "y", "e", "l", "l", "o", "w">>)
  @@ ("key_blue" :> <<"k", "e", "y", "_", "b", "l", "u", "e">>)
  @@ ("key_green" :> <<"k", "e", "y", "_", "g", "r", "e", "e", "n">>)
  @@ ("key_red" :> <<"k", "e", "y", "_", "r", "e", "d">>)
  @@ ("key_yellow" :> <<"k", "e", "y", "_", "y", "e", "l", "l", "o", "w">>)
  @@ ("keyblue" :> <<"k", "e", "y", "b", "l", "u", "e">>)
  @@ ("keygreen" :> <<"k", "e", "y", "g", "r", "e", "e", "n">>)
  @@ ("keyred" :> <<"k", "e", "y", "r", "e", "d">>)
  @@ ("keyyellow" :> <<"k", "e", "y", "y", "e", "l", "l", "o", "w">>)
  @@ ("p" :> <<"p">>)
  @@ ("portal" :> <<"p", "o", "r", "t", "a", "l">>)
  @@ ("portal a" :> <<"p", "o", "r", "t", "a", "l", " ", "a">>)
  @@ ("portal b" :> <<"p", "o", "r", "t", "a", "l", " ", "b">>)
  @@ ("portal-a" :> <<"p", "o", "r", "t", "a", "l", "-", "a">>)
  @@ ("portal-b" :> <<"p", "o", "r", "t", "a", "l", "-", "b">>)
  @@ ("portal_a" :> <<"p", "o", "r", "t", "a", "l", "_", "a">>)
  @@ ("portal_b" :> <<"p", "o", "r", "t", "a", "l", "_", "b">>)
  @@ ("portala" :> <<"p", "o", "r", "t", "a", "l", "a">>)
  @@ ("portalb" :> <<"p", "o", "r", "t", "a", "l", "b">>)
  @@ ("trap" :> <<"t", "r", "a", "p">>)
  @@ ("w" :> <<"w">>)
  @@ ("wall" :> <<"w", "a", "l", "l">>)
  @@ ("x" :> <<"x">>)

\* The characters of the string s.
Chars(s) == CharTable[s]

\* The string made of the characters cs.
RECURSIVE Join(_)
Join(cs) == IF cs = <<>> THEN "" ELSE Head(cs) \o Join(Tail(cs))

\* \s of a regular expression, on the characters of this model.
IsSpace(c) == c = " "

RECURSIVE trimStart(_)
trimStart(cs) == IF cs # <<>> /\ IsSpace(Head(cs)) THEN trimStart(Tail(cs)) ELSE cs

RECURSIVE trimEnd(_)
trimEnd(cs) ==
  IF cs # <<>> /\ IsSpace(cs[Len(cs)]) THEN trimEnd(SubSeq(cs, 1, Len(cs) - 1)) ELSE cs

\* tileType.trim()
trim(cs) == trimEnd(trimStart(cs))

\* [\s-]
IsDelimiter(c) == IsSpace(c) \/ c = "-"

\* cs without the delimiters it starts with.
RECURSIVE skipDelimiters(_)
skipDelimiters(cs) ==
  IF cs # <<>> /\ IsDelimiter(Head(cs)) THEN skipDelimiters(Tail(cs)) ELSE cs

\* replace(/[\s-]+/g, '_')
RECURSIVE replaceDelimiters(_)
replaceDelimiters(cs) ==
  IF cs = <<>> THEN <<>>
  ELSE IF IsDelimiter(Head(cs)) THEN <<"_">> \o replaceDelimiters(skipDelimiters(cs))
  ELSE <<Head(cs)>> \o replaceDelimiters(Tail(cs))

LowerCaseLetters ==
  <<"a", "b", "c", "d", "e", "f", "g", "h", "i", "j", "k", "l", "m",
    "n", "o", "p", "q", "r", "s", "t", "u", "v", "w", "x", "y", "z">>

UpperCaseLetters ==
  <<"A", "B", "C", "D", "E", "F", "G", "H", "I", "J", "K", "L", "M",
    "N", "O", "P", "Q", "R", "S", "T", "U", "V", "W", "X", "Y", "Z">>

\* toUpperCase()
toUpperCase(cs) ==
  [i \in 1..Len(cs) |->
     IF \E k \in 1..26 : LowerCaseLetters[k] = cs[i]
     THEN UpperCaseLetters[CHOOSE k \in 1..26 : LowerCaseLetters[k] = cs[i]]
     ELSE cs[i]]

\* Mutant of canonicalOf: the letter case is kept.
canonicalOfKeepsCase(trimmed) == Join(replaceDelimiters(trimmed))

\* trimmed.replace(/[\s-]+/g, '_').toUpperCase()
canonicalOf(trimmed) == Join(toUpperCase(replaceDelimiters(trimmed)))

\* Raw layout values that are not strings, null or undefined: a number, a
\* boolean and an object.
NonStringValues == {"<number 7>", "<boolean true>", "<object>"}

normalizeTileType(tileType) ==
  IF tileType = "null" \/ tileType = Undefined
  THEN [type |-> "EMPTY", isFixed |-> Undefined]
  ELSE IF tileType \in NonStringValues
  THEN [type |-> tileType, isFixed |-> Undefined]
  ELSE
    LET trimmed == trim(Chars(tileType))
        canonical == canonicalOf(trimmed)
    IN  IF trimmed = <<>> THEN [type |-> "EMPTY", isFixed |-> Undefined]
        ELSE IF Join(trimmed) \in VALID_TILE_TYPES
        THEN [type |-> Join(trimmed), isFixed |-> Undefined]
        ELSE IF canonical \in VALID_TILE_TYPES THEN [type |-> canonical, isFixed |-> Undefined]
        ELSE IF canonical \in {"KEYRED", "KEY_RED", "KEY-RED"} THEN [type |-> "KEY_RED", isFixed |-> Undefined]
        ELSE IF canonical \in {"KEYBLUE", "KEY_BLUE", "KEY-BLUE"} THEN [type |-> "KEY_BLUE", isFixed |-> Undefined]
        ELSE IF canonical \in {"KEYGREEN", "KEY_GREEN", "KEY-GREEN"} THEN [type |-> "KEY_GREEN", isFixed |-> Undefined]
        ELSE IF canonical \in {"KEYYELLOW", "KEY_YELLOW", "KEY-YELLOW"} THEN [type |-> "KEY_YELLOW", isFixed |-> Undefined]
        ELSE IF canonical \in {"DOORRED", "DOOR_RED", "DOOR-RED"} THEN [type |-> "DOOR_RED", isFixed |-> Undefined]
        ELSE IF canonical \in {"DOORBLUE", "DOOR_BLUE", "DOOR-BLUE"} THEN [type |-> "DOOR_BLUE", isFixed |-> Undefined]
        ELSE IF canonical \in {"DOORGREEN", "DOOR_GREEN", "DOOR-GREEN"} THEN [type |-> "DOOR_GREEN", isFixed |-> Undefined]
        ELSE IF canonical \in {"DOORYELLOW", "DOOR_YELLOW", "DOOR-YELLOW"} THEN [type |-> "DOOR_YELLOW", isFixed |-> Undefined]
        ELSE IF canonical = "PORTALA" THEN [type |-> "PORTAL_A", isFixed |-> Undefined]
        ELSE IF canonical = "PORTALB" THEN [type |-> "PORTAL_B", isFixed |-> Undefined]
        ELSE IF canonical \in {"#", "W", "WALL"} THEN [type |-> "WALL", isFixed |-> Undefined]
        ELSE IF canonical \in {".", "", "E", "EMPTY", "P"} THEN [type |-> "EMPTY", isFixed |-> Undefined]
        ELSE IF canonical \in {"!", "TRAP"} THEN [type |-> "TRAP", isFixed |-> Undefined]
        ELSE IF canonical \in {"X", "BOX", "CRATE"} THEN [type |-> "BLOCK", isFixed |-> Undefined]
        ELSE IF canonical \in {"F", "FIXED_BLOCK"} THEN [type |-> "BLOCK", isFixed |-> "true"]
        ELSE IF canonical = "PORTAL" THEN [type |-> "PORTAL_A", isFixed |-> Undefined]
        ELSE IF canonical \in {"G", "GOAL"} THEN [type |-> "GOAL", isFixed |-> Undefined]
        ELSE [type |-> "EMPTY", isFixed |-> Undefined]

\* Mutant of Max: the first argument, whatever the second.
MaxFirst(a, b) == a

\* Math.max
Max(a, b) == IF a > b THEN a ELSE b

\* tile.type.startsWith('DOOR_') of createGame is a TypeError when tile.type
\* is not a string.
createGameThrows(level) ==
  \E r \in 1..Len(level.layout) : \E c \in 1..Len(level.layout[r]) :
    normalizeTileType(level.layout[r][c]).type \in NonStringValues

\* The state createGame returns when it does not throw.
createGame(level) ==
  [level |-> level,
   turn |-> 0,
   maxTurns |-> Max(level.maxTurns, 200),
   gridSize |-> level.gridSize,
   grid |->
     [r \in 1..Len(level.layout) |->
       [c \in 1..Len(level.layout[r]) |->
         LET normalized == normalizeTileType(level.layout[r][c])
         IN  [type |-> normalized.type,
              isFixed |-> IF Truthy(normalized.isFixed) THEN "true" ELSE Undefined,
              isOpen |-> IF IsDoor(normalized.type) THEN "false" ELSE Undefined]]],
   playerPosition |-> level.playerStart,
   inventory |-> [keys |-> <<>>],
   objective |-> level.objective,
   done |-> FALSE,
   success |-> FALSE,
   message |-> Undefined,
   moveHistory |-> <<>>,
   startTime |-> "null",
   endTime |-> "null"]

-----------------------------------------------------------------------------
(* Grid helpers                                                            *)

isInBounds(state, pos) ==
  pos.x >= 0 /\ pos.x < state.gridSize.width /\ pos.y >= 0 /\ pos.y < state.gridSize.height

getTileAt(grid, pos) == grid[pos.y + 1][pos.x + 1]

\* The assignment state.grid[pos.y][pos.x] = tile.
SetTile(state, pos, tile) == [state EXCEPT !.grid[pos.y + 1][pos.x + 1] = tile]

getDirName(delta) ==
  IF delta.y < 0 THEN "up"
  ELSE IF delta.y > 0 THEN "down"
  ELSE IF delta.x < 0 THEN "left"
  ELSE IF delta.x > 0 THEN "right"
  ELSE ""

\* Mutant of isPassable: a closed door does not block.
isPassableThroughDoors(tile) ==
  IF tile.type = "WALL" THEN FALSE
  ELSE IF tile.type = "BLOCK" /\ ~Truthy(tile.isFixed) THEN FALSE
  ELSE TRUE

\* Mutant of isPassable: a wall does not block.
isPassableThroughWalls(tile) ==
  IF IsDoor(tile.type) /\ ~Truthy(tile.isOpen) THEN FALSE
  ELSE IF tile.type = "BLOCK" /\ ~Truthy(tile.isFixed) THEN FALSE
  ELSE TRUE

\* Mutant of isPassable: a fixed block stops the player like a wall.
isPassableNoFixedBlocks(tile) ==
  IF tile.type = "WALL" THEN FALSE
  ELSE IF IsDoor(tile.type) /\ ~Truthy(tile.isOpen) THEN FALSE
  ELSE IF tile.type = "BLOCK" THEN FALSE
  ELSE TRUE

isPassable(tile) ==
  IF tile.type = "WALL" THEN FALSE
  ELSE IF IsDoor(tile.type) /\ ~Truthy(tile.isOpen) THEN FALSE
  ELSE IF tile.type = "BLOCK" /\ ~Truthy(tile.isFixed) THEN FALSE
  ELSE IF tile.type = "BLOCK" /\ Truthy(tile.isFixed) THEN TRUE
  ELSE TRUE

\* The cells of the grid, as the nested loops of findOtherPortal visit them.
Cells(state) ==
  {[x |-> c, y |-> r] : c \in 0..(state.gridSize.width - 1), r \in 0..(state.gridSize.height - 1)}

\* p is visited before q (or is q) by "for y ... for x ...".
RowMajorLeq(p, q) == p.y < q.y \/ (p.y = q.y /\ p.x <= q.x)

\* Mutant of findOtherPortal: the loops are nested the other way round (x outside, y inside).
findOtherPortalByColumns(state, currentPortalType) ==
  LET targetType == IF currentPortalType = "PORTAL_A" THEN "PORTAL_B" ELSE "PORTAL_A"
      found == {p \in Cells(state) : getTileAt(state.grid, p).type = targetType}
  IN  IF found = {} THEN None
      ELSE Some(CHOOSE p \in found :
                  \A q \in found : p.x < q.x \/ (p.x = q.x /\ p.y <= q.y))

findOtherPortal(state, currentPortalType) ==
  LET targetType == IF currentPortalType = "PORTAL_A" THEN "PORTAL_B" ELSE "PORTAL_A"
      found == {p \in Cells(state) : getTileAt(state.grid, p).type = targetType}
  IN  IF found = {} THEN None
      ELSE Some(CHOOSE p \in found : \A q \in found : RowMajorLeq(p, q))

-----------------------------------------------------------------------------
(* Block pushing                                                           *)

\* Mutant of tryPushBlock: a block pushed onto a trap is placed there like on an empty cell.
tryPushBlockCoversTrap(state, blockPos, delta) ==
  LET newBlockPos == [x |-> blockPos.x + delta.x, y |-> blockPos.y + delta.y]
      failed == [state |-> state, success |-> FALSE, message |-> "Cannot push block there",
                 pushedBlock |-> None, neutralizedTrap |-> None]
  IN  IF ~isInBounds(state, newBlockPos) THEN failed
      ELSE
        LET targetTile == getTileAt(state.grid, newBlockPos)
        IN  IF targetTile.type # "EMPTY" /\ targetTile.type # "TRAP" THEN failed
            ELSE [state |-> SetTile(SetTile(state, newBlockPos, MkTile("BLOCK")),
                                    blockPos, MkTile("EMPTY")),
                  success |-> TRUE,
                  message |-> "Pushed block",
                  pushedBlock |-> Some([from |-> blockPos, to |-> newBlockPos]),
                  neutralizedTrap |-> None]

\* Mutant of tryPushBlock: a block is pushed onto any tile but a wall.
tryPushBlockOntoAnything(state, blockPos, delta) ==
  LET newBlockPos == [x |-> blockPos.x + delta.x, y |-> blockPos.y + delta.y]
      failed == [state |-> state, success |-> FALSE, message |-> "Cannot push block there",
                 pushedBlock |-> None, neutralizedTrap |-> None]
  IN  IF ~isInBounds(state, newBlockPos) THEN failed
      ELSE
        LET targetTile == getTileAt(state.grid, newBlockPos)
        IN  IF targetTile.type = "WALL" THEN failed
            ELSE
              LET placed == IF targetTile.type = "TRAP"
                            THEN SetTile(state, newBlockPos, MkTile("EMPTY"))
                            ELSE SetTile(state, newBlockPos, MkTile("BLOCK"))
              IN  [state |-> SetTile(placed, blockPos, MkTile("EMPTY")),
                   success |-> TRUE,
                   message |-> "Pushed block",
                   pushedBlock |-> Some([from |-> blockPos, to |-> newBlockPos]),
                   neutralizedTrap |-> IF targetTile.type = "TRAP" THEN Some(newBlockPos) ELSE None]

\* Mutant of tryPushBlock: the pushed block also stays where it was.
tryPushBlockKeepsSource(state, blockPos, delta) ==
  LET newBlockPos == [x |-> blockPos.x + delta.x, y |-> blockPos.y + delta.y]
      failed == [state |-> state, success |-> FALSE, message |-> "Cannot push block there",
                 pushedBlock |-> None, neutralizedTrap |-> None]
  IN  IF ~isInBounds(state, newBlockPos) THEN failed
      ELSE
        LET targetTile == getTileAt(state.grid, newBlockPos)
        IN  IF targetTile.type # "EMPTY" /\ targetTile.type # "TRAP" THEN failed
            ELSE
              LET placed == IF targetTile.type = "TRAP"
                            THEN SetTile(state, newBlockPos, MkTile("EMPTY"))
                            ELSE SetTile(state, newBlockPos, MkTile("BLOCK"))
              IN  [state |-> placed,
                   success |-> TRUE,
                   message |-> "Pushed block",
                   pushedBlock |-> Some([from |-> blockPos, to |-> newBlockPos]),
                   neutralizedTrap |-> IF targetTile.type = "TRAP" THEN Some(newBlockPos) ELSE None]

tryPushBlock(state, blockPos, delta) ==
  LET newBlockPos == [x |-> blockPos.x + delta.x, y |-> blockPos.y + delta.y]
      failed == [state |-> state, success |-> FALSE, message |-> "Cannot push block there",
                 pushedBlock |-> None, neutralizedTrap |-> None]
  IN  IF ~isInBounds(state, newBlockPos) THEN failed
      ELSE
        LET targetTile == getTileAt(state.grid, newBlockPos)
        IN  IF targetTile.type # "EMPTY" /\ targetTile.type # "TRAP" THEN failed
            ELSE
              LET placed == IF targetTile.type = "TRAP"
                            THEN SetTile(state, newBlockPos, MkTile("EMPTY"))
                            ELSE SetTile(state, newBlockPos, MkTile("BLOCK"))
              IN  [state |-> SetTile(placed, blockPos, MkTile("EMPTY")),
                   success |-> TRUE,
                   message |-> "Pushed block",
                   pushedBlock |-> Some([from |-> blockPos, to |-> newBlockPos]),
                   neutralizedTrap |-> IF targetTile.type = "TRAP" THEN Some(newBlockPos) ELSE None]

-----------------------------------------------------------------------------
(* Movement                                                                *)

\* Mutant of MoveNoOp: a blocked move is reported as a failure.
MoveNoOpFails(state, message) ==
  [state |-> state, success |-> FALSE, message |-> message, collectedKey |-> Undefined,
   pushedBlock |-> None, neutralizedTrap |-> None, teleported |-> FALSE]

\* A MoveResult of tryMove that leaves the state as it is.
MoveNoOp(state, message) ==
  [state |-> state, success |-> TRUE, message |-> message, collectedKey |-> Undefined,
   pushedBlock |-> None, neutralizedTrap |-> None, teleported |-> FALSE]

\* Mutant of PickUpKey: the key is collected whether or not its colour is held.
PickUpKeyAlways(state, newPos, finalTile) ==
  IF IsKey(finalTile.type)
  THEN SetTile([state EXCEPT !.inventory.keys = Append(@, getKeyColor(finalTile.type))],
               newPos, MkTile("EMPTY"))
  ELSE state

\* Mutant of PickUpKey: the colour is added to the inventory but the key tile stays.
PickUpKeyLeavesTile(state, newPos, finalTile) ==
  IF IsKey(finalTile.type) /\ ~includes(state.inventory.keys, getKeyColor(finalTile.type))
  THEN [state EXCEPT !.inventory.keys = Append(@, getKeyColor(finalTile.type))]
  ELSE state

\* Mutant of PickUpKey: a key whose colour is held is taken off the grid too.
PickUpKeyDiscardsHeld(state, newPos, finalTile) ==
  IF IsKey(finalTile.type)
  THEN IF ~includes(state.inventory.keys, getKeyColor(finalTile.type))
       THEN SetTile([state EXCEPT !.inventory.keys = Append(@, getKeyColor(finalTile.type))],
                    newPos, MkTile("EMPTY"))
       ELSE SetTile(state, newPos, MkTile("EMPTY"))
  ELSE state

\* Lines 220-229 of tryMove: the key under the player is collected unless its colour is held.
PickUpKey(state, newPos, finalTile) ==
  IF IsKey(finalTile.type) /\ ~includes(state.inventory.keys, getKeyColor(finalTile.type))
  THEN SetTile([state EXCEPT !.inventory.keys = Append(@, getKeyColor(finalTile.type))],
               newPos, MkTile("EMPTY"))
  ELSE state

\* Mutant of Teleport: the portal the player entered is used up.
TeleportConsumesPortal(state, finalTile) ==
  LET portalDest == IF finalTile.type = "PORTAL_A" \/ finalTile.type = "PORTAL_B"
                    THEN findOtherPortal(state, finalTile.type)
                    ELSE None
  IN  IF portalDest # None
      THEN [state |-> SetTile([state EXCEPT !.playerPosition = portalDest[1]],
                              state.playerPosition, MkTile("EMPTY")),
            teleported |-> TRUE]
      ELSE [state |-> state, teleported |-> FALSE]

\* Lines 231-239 of tryMove: a portal under the player sends it to the other portal.
Teleport(state, finalTile) ==
  LET portalDest == IF finalTile.type = "PORTAL_A" \/ finalTile.type = "PORTAL_B"
                    THEN findOtherPortal(state, finalTile.type)
                    ELSE None
  IN  IF portalDest # None
      THEN [state |-> [state EXCEPT !.playerPosition = portalDest[1]], teleported |-> TRUE]
      ELSE [state |-> state, teleported |-> FALSE]

\* Lines 217-256 of tryMove: the player steps onto newPos, whose tile is finalTile.
MovePlayer(state, newPos, finalTile, dirName, pushedBlock, neutralizedTrap) ==
  LET moved == [state EXCEPT !.playerPosition = newPos]
      collectedKey == IF IsKey(finalTile.type) THEN getKeyColor(finalTile.type) ELSE Undefined
      ported == Teleport(PickUpKey(moved, newPos, finalTile), finalTile)
  IN  [state |-> ported.state,
       success |-> TRUE,
       message |-> IF ported.teleported THEN "Teleported through portal!"
                   ELSE IF collectedKey # Undefined
                        THEN "Collected " \o toLowerCase(collectedKey) \o " key"
                        ELSE "Moved " \o dirName,
       collectedKey |-> collectedKey,
       pushedBlock |-> pushedBlock,
       neutralizedTrap |-> neutralizedTrap,
       teleported |-> ported.teleported]

tryMove(state, delta) ==
  LET newPos == [x |-> state.playerPosition.x + delta.x, y |-> state.playerPosition.y + delta.y]
      dirName == getDirName(delta)
  IN  IF ~isInBounds(state, newPos)
      THEN MoveNoOp(state, "Moved " \o dirName \o " (no-op: out of bounds)")
      ELSE
        LET targetTile == getTileAt(state.grid, newPos)
            isBlock == targetTile.type = "BLOCK" /\ ~Truthy(targetTile.isFixed)
            pushResult == tryPushBlock(state, newPos, delta)
        IN  IF isBlock /\ ~pushResult.success
            THEN MoveNoOp(state, "Moved " \o dirName \o " (no-op: " \o pushResult.message \o ")")
            ELSE
              LET pushed == IF isBlock THEN pushResult.state ELSE state
                  finalTile == getTileAt(pushed.grid, newPos)
              IN  IF ~isPassable(finalTile)
                  THEN MoveNoOp(pushed, "Moved " \o dirName \o " (no-op: blocked)")
                  ELSE MovePlayer(pushed, newPos, finalTile, dirName,
                                  IF isBlock THEN pushResult.pushedBlock ELSE None,
                                  IF isBlock THEN pushResult.neutralizedTrap ELSE None)

-----------------------------------------------------------------------------
(* Interaction                                                             *)

directions ==
  <<[x |-> 0, y |-> -1], [x |-> 0, y |-> 1], [x |-> -1, y |-> 0], [x |-> 1, y |-> 0]>>

\* Mutant of tryInteract: opening a door uses the key up.
tryInteractConsumesKey(state) ==
  LET pos == state.playerPosition
      adjPos(i) == [x |-> pos.x + directions[i].x, y |-> pos.y + directions[i].y]
      closedDoor(i) ==
        /\ isInBounds(state, adjPos(i))
        /\ IsDoor(getTileAt(state.grid, adjPos(i)).type)
        /\ ~Truthy(getTileAt(state.grid, adjPos(i)).isOpen)
      doors == {i \in 1..Len(directions) : closedDoor(i)}
  IN  IF doors = {}
      THEN [state |-> state, success |-> TRUE,
            message |-> "Interact (no-op: nothing to interact with)", openedDoor |-> None]
      ELSE
        LET first == CHOOSE i \in doors : \A j \in doors : i <= j
            doorColor == getKeyColor(getTileAt(state.grid, adjPos(first)).type)
        IN  IF includes(state.inventory.keys, doorColor)
            THEN [state |-> SetTile([state EXCEPT !.inventory.keys =
                                       SelectSeq(@, LAMBDA k : k # doorColor)],
                                    adjPos(first), MkTile("EMPTY")),
                  success |-> TRUE,
                  message |-> "Opened " \o toLowerCase(doorColor) \o " door",
                  openedDoor |-> Some(adjPos(first))]
            ELSE [state |-> state, success |-> TRUE,
                  message |-> "Interact (no-op: need " \o toLowerCase(doorColor) \o " key)",
                  openedDoor |-> None]

\* Mutant of tryInteract: the first closed door that the player has the key
\* for is opened, doors without a key being passed over.
tryInteractAnyMatchingDoor(state) ==
  LET pos == state.playerPosition
      adjPos(i) == [x |-> pos.x + directions[i].x, y |-> pos.y + directions[i].y]
      closedDoor(i) ==
        /\ isInBounds(state, adjPos(i))
        /\ IsDoor(getTileAt(state.grid, adjPos(i)).type)
        /\ ~Truthy(getTileAt(state.grid, adjPos(i)).isOpen)
        /\ includes(state.inventory.keys, getKeyColor(getTileAt(state.grid, adjPos(i)).type))
      doors == {i \in 1..Len(directions) : closedDoor(i)}
  IN  IF doors = {}
      THEN [state |-> state, success |-> TRUE,
            message |-> "Interact (no-op: nothing to interact with)", openedDoor |-> None]
      ELSE
        LET first == CHOOSE i \in doors : \A j \in doors : i <= j
            doorColor == getKeyColor(getTileAt(state.grid, adjPos(first)).type)
        IN  [state |-> SetTile(state, adjPos(first), MkTile("EMPTY")),
             success |-> TRUE,
             message |-> "Opened " \o toLowerCase(doorColor) \o " door",
             openedDoor |-> Some(adjPos(first))]

\* Mutant of tryInteract: every adjacent closed door that the player has the
\* key for is opened.
tryInteractOpensAllDoors(state) ==
  LET pos == state.playerPosition
      adjPos(i) == [x |-> pos.x + directions[i].x, y |-> pos.y + directions[i].y]
      closedDoor(i) ==
        /\ isInBounds(state, adjPos(i))
        /\ IsDoor(getTileAt(state.grid, adjPos(i)).type)
        /\ ~Truthy(getTileAt(state.grid, adjPos(i)).isOpen)
      doors == {i \in 1..Len(directions) : closedDoor(i)}
      held(i) == includes(state.inventory.keys, getKeyColor(getTileAt(state.grid, adjPos(i)).type))
      opens(p) == \E i \in doors : held(i) /\ adjPos(i) = p
  IN  IF doors = {}
      THEN [state |-> state, success |-> TRUE,
            message |-> "Interact (no-op: nothing to interact with)", openedDoor |-> None]
      ELSE
        LET first == CHOOSE i \in doors : \A j \in doors : i <= j
            doorColor == getKeyColor(getTileAt(state.grid, adjPos(first)).type)
        IN  IF includes(state.inventory.keys, doorColor)
            THEN [state |-> [state EXCEPT !.grid =
                               [y \in DOMAIN @ |-> [x \in DOMAIN @[y] |->
                                  IF opens([x |-> x - 1, y |-> y - 1])
                                  THEN MkTile("EMPTY") ELSE @[y][x]]]],
                  success |-> TRUE,
                  message |-> "Opened " \o toLowerCase(doorColor) \o " door",
                  openedDoor |-> Some(adjPos(first))]
            ELSE [state |-> state, success |-> TRUE,
                  message |-> "Interact (no-op: need " \o toLowerCase(doorColor) \o " key)",
                  openedDoor |-> None]

tryInteract(state) ==
  LET pos == state.playerPosition
      adjPos(i) == [x |-> pos.x + directions[i].x, y |-> pos.y + directions[i].y]
      closedDoor(i) ==
        /\ isInBounds(state, adjPos(i))
        /\ IsDoor(getTileAt(state.grid, adjPos(i)).type)
        /\ ~Truthy(getTileAt(state.grid, adjPos(i)).isOpen)
      doors == {i \in 1..Len(directions) : closedDoor(i)}
  IN  IF doors = {}
      THEN [state |-> state, success |-> TRUE,
            message |-> "Interact (no-op: nothing to interact with)", openedDoor |-> None]
      ELSE
        LET first == CHOOSE i \in doors : \A j \in doors : i <= j
            doorColor == getKeyColor(getTileAt(state.grid, adjPos(first)).type)
        IN  IF includes(state.inventory.keys, doorColor)
            THEN [state |-> SetTile(state, adjPos(first), MkTile("EMPTY")),
                  success |-> TRUE,
                  message |-> "Opened " \o toLowerCase(doorColor) \o " door",
                  openedDoor |-> Some(adjPos(first))]
            ELSE [state |-> state, success |-> TRUE,
                  message |-> "Interact (no-op: need " \o toLowerCase(doorColor) \o " key)",
                  openedDoor |-> None]

-----------------------------------------------------------------------------
(* executeAction, undoMove, resetGame                                      *)

\* Lines 100-123 of executeAction: the dispatch on the action, on the cloned state.
Dispatch(newState, action) ==
  IF action \in MoveDirection
  THEN LET moveResult == tryMove(newState, DIRECTION_DELTAS[action])
       IN  [state |-> moveResult.state,
            actionSuccess |-> moveResult.success,
            message |-> moveResult.message,
            collectedKey |-> moveResult.collectedKey,
            openedDoor |-> None,
            pushedBlock |-> moveResult.pushedBlock,
            neutralizedTrap |-> moveResult.neutralizedTrap,
            teleported |-> moveResult.teleported]
  ELSE IF action = "INTERACT"
  THEN LET interactResult == tryInteract(newState)
       IN  [state |-> interactResult.state,
            actionSuccess |-> interactResult.success,
            message |-> interactResult.message,
            collectedKey |-> Undefined,
            openedDoor |-> interactResult.openedDoor,
            pushedBlock |-> None,
            neutralizedTrap |-> None,
            teleported |-> FALSE]
  ELSE [state |-> newState,
        actionSuccess |-> FALSE,
        message |-> "",
        collectedKey |-> Undefined,
        openedDoor |-> None,
        pushedBlock |-> None,
        neutralizedTrap |-> None,
        teleported |-> FALSE]

\* Mutant of CheckTerminal: only the goal ends the game.
CheckTerminalGoalOnly(state, message) ==
  LET currentTile == getTileAt(state.grid, state.playerPosition)
      atGoal == IF currentTile.type = "GOAL"
                THEN [state EXCEPT !.done = TRUE, !.success = TRUE, !.endTime = "set"]
                ELSE state
      text == IF currentTile.type = "GOAL" THEN "You reached the goal! Puzzle complete!"
              ELSE message
  IN  [atGoal EXCEPT !.message = text]

\* Lines 125-142 of executeAction: the goal and trap checks on the tile under the player.
CheckTerminal(state, message) ==
  LET currentTile == getTileAt(state.grid, state.playerPosition)
      atGoal == IF currentTile.type = "GOAL"
                THEN [state EXCEPT !.done = TRUE, !.success = TRUE, !.endTime = "set"]
                ELSE state
      atTrap == IF currentTile.type = "TRAP"
                THEN [atGoal EXCEPT !.done = TRUE, !.success = FALSE, !.endTime = "set"]
                ELSE atGoal
      text == IF currentTile.type = "TRAP" THEN "You stepped on a trap! Game over."
              ELSE IF currentTile.type = "GOAL" THEN "You reached the goal! Puzzle complete!"
              ELSE message
  IN  [atTrap EXCEPT !.message = text]

\* Mutant of RecordMove: the move record is appended whether or not the action succeeded.
RecordMoveAlways(state, d, newState, action, source) ==
  [newState EXCEPT !.moveHistory =
     Append(@, [action |-> action,
                previousPlayerPos |-> state.playerPosition,
                previousGrid |-> state.grid,
                previousInventory |-> state.inventory,
                collectedKey |-> d.collectedKey,
                openedDoor |-> d.openedDoor,
                pushedBlock |-> d.pushedBlock,
                neutralizedTrap |-> d.neutralizedTrap,
                teleported |-> d.teleported,
                source |-> source])]

\* Mutant of RecordMove: an action that left the board as it was is not recorded.
RecordMoveSkipsNoOps(state, d, newState, action, source) ==
  IF d.actionSuccess
     /\ ~(/\ newState.grid = state.grid
          /\ newState.playerPosition = state.playerPosition
          /\ newState.inventory = state.inventory)
  THEN [newState EXCEPT !.moveHistory =
          Append(@, [action |-> action,
                     previousPlayerPos |-> state.playerPosition,
                     previousGrid |-> state.grid,
                     previousInventory |-> state.inventory,
                     collectedKey |-> d.collectedKey,
                     openedDoor |-> d.openedDoor,
                     pushedBlock |-> d.pushedBlock,
                     neutralizedTrap |-> d.neutralizedTrap,
                     teleported |-> d.teleported,
                     source |-> source])]
  ELSE newState

\* Lines 144-161 of executeAction: the move record, appended when the action succeeded.
RecordMove(state, d, newState, action, source) ==
  IF d.actionSuccess
  THEN [newState EXCEPT !.moveHistory =
          Append(@, [action |-> action,
                     previousPlayerPos |-> state.playerPosition,
                     previousGrid |-> state.grid,
                     previousInventory |-> state.inventory,
                     collectedKey |-> d.collectedKey,
                     openedDoor |-> d.openedDoor,
                     pushedBlock |-> d.pushedBlock,
                     neutralizedTrap |-> d.neutralizedTrap,
                     teleported |-> d.teleported,
                     source |-> source])]
  ELSE newState

\* Lines 90-93 of executeAction: the clone with the turn counted and the clock started.
BeginTurn(state) ==
  [state EXCEPT !.turn = @ + 1,
                !.startTime = IF @ = "null" THEN "set" ELSE @]

\* Mutant of ApplyAction: an action that changes nothing on the board costs no turn.
ApplyActionFreeNoOp(state, action, source) ==
  LET d == Dispatch(BeginTurn(state), action)
      same == /\ d.state.playerPosition = state.playerPosition
              /\ d.state.grid = state.grid
              /\ d.state.inventory = state.inventory
      counted == IF same THEN [d.state EXCEPT !.turn = state.turn] ELSE d.state
      checked == CheckTerminal(counted, d.message)
  IN  [success |-> d.actionSuccess,
       newState |-> RecordMove(state, d, checked, action, source),
       newStateIs |-> "clone",
       state |-> state,
       message |-> checked.message]

\* Mutant of ApplyAction: the action is applied to the input object in place.
ApplyActionInPlace(state, action, source) ==
  LET d == Dispatch(BeginTurn(state), action)
      checked == CheckTerminal(d.state, d.message)
      written == RecordMove(state, d, checked, action, source)
  IN  [success |-> d.actionSuccess,
       newState |-> written,
       newStateIs |-> "state",
       state |-> written,
       message |-> checked.message]

\* Lines 90-168 of executeAction: the action applied to a state that is not done.
\* newStateIs names the object that is returned as newState: the "clone" of
\* line 91, or the input "state" itself; state is the input object as the call
\* leaves it (every write of lines 92-161 goes to the clone).
ApplyAction(state, action, source) ==
  LET d == Dispatch(BeginTurn(state), action)
      checked == CheckTerminal(d.state, d.message)
  IN  [success |-> d.actionSuccess,
       newState |-> RecordMove(state, d, checked, action, source),
       newStateIs |-> "clone",
       state |-> state,
       message |-> checked.message]

\* Mutant of executeAction: the check for a finished game is missing.
executeActionNoDoneCheck(state, action, source) == ApplyAction(state, action, source)

executeAction(state, action, source) ==
  IF state.done
  THEN [success |-> FALSE, newState |-> state, newStateIs |-> "state", state |-> state,
        message |-> "Game is already finished"]
  ELSE ApplyAction(state, action, source)

\* Mutant of undoMove: the inventory is not restored.
undoMoveKeepsInventory(state) ==
  IF Len(state.moveHistory) = 0
  THEN state
  ELSE
    LET lastMove == state.moveHistory[Len(state.moveHistory)]
    IN  [state EXCEPT !.playerPosition = lastMove.previousPlayerPos,
                      !.grid = lastMove.previousGrid,
                      !.moveHistory = SubSeq(@, 1, Len(@) - 1),
                      !.turn = @ - 1,
                      !.done = FALSE,
                      !.success = FALSE,
                      !.message = Undefined,
                      !.endTime = "null"]

\* Mutant of undoMove: the grid is not restored.
undoMoveKeepsGrid(state) ==
  IF Len(state.moveHistory) = 0
  THEN state
  ELSE
    LET lastMove == state.moveHistory[Len(state.moveHistory)]
    IN  [state EXCEPT !.playerPosition = lastMove.previousPlayerPos,
                      !.inventory = lastMove.previousInventory,
                      !.moveHistory = SubSeq(@, 1, Len(@) - 1),
                      !.turn = @ - 1,
                      !.done = FALSE,
                      !.success = FALSE,
                      !.message = Undefined,
                      !.endTime = "null"]

\* Mutant of undoMove: done and success are left as they are.
undoMoveKeepsDone(state) ==
  IF Len(state.moveHistory) = 0
  THEN state
  ELSE
    LET lastMove == state.moveHistory[Len(state.moveHistory)]
    IN  [state EXCEPT !.playerPosition = lastMove.previousPlayerPos,
                      !.grid = lastMove.previousGrid,
                      !.inventory = lastMove.previousInventory,
                      !.moveHistory = SubSeq(@, 1, Len(@) - 1),
                      !.turn = @ - 1,
                      !.message = Undefined,
                      !.endTime = "null"]

\* Mutant of undoMove: an empty history is undone too, as far as the flags
\* and the turn go.
undoMoveOnEmptyHistory(state) ==
  IF Len(state.moveHistory) = 0
  THEN [state EXCEPT !.turn = @ - 1,
                     !.done = FALSE,
                     !.success = FALSE,
                     !.message = Undefined,
                     !.endTime = "null"]
  ELSE
    LET lastMove == state.moveHistory[Len(state.moveHistory)]
    IN  [state EXCEPT !.playerPosition = lastMove.previousPlayerPos,
                      !.grid = lastMove.previousGrid,
                      !.inventory = lastMove.previousInventory,
                      !.moveHistory = SubSeq(@, 1, Len(@) - 1),
                      !.turn = @ - 1,
                      !.done = FALSE,
                      !.success = FALSE,
                      !.message = Undefined,
                      !.endTime = "null"]

undoMove(state) ==
  IF Len(state.moveHistory) = 0
  THEN state
  ELSE
    LET lastMove == state.moveHistory[Len(state.moveHistory)]
    IN  [state EXCEPT !.playerPosition = lastMove.previousPlayerPos,
                      !.grid = lastMove.previousGrid,
                      !.inventory = lastMove.previousInventory,
                      !.moveHistory = SubSeq(@, 1, Len(@) - 1),
                      !.turn = @ - 1,
                      !.done = FALSE,
                      !.success = FALSE,
                      !.message = Undefined,
                      !.endTime = "null"]

\* Mutant of resetGame: the fresh state keeps the keys collected so far.
resetGameKeepsInventory(state) ==
  [createGame(state.level) EXCEPT !.inventory = state.inventory]

resetGame(state) == createGame(state.level)

-----------------------------------------------------------------------------
(* Levels                                                                  *)

\* A DungeonLevel whose gridSize is the size of its layout.
MkLevel(id, layout, playerStart, maxTurns) ==
  [id |-> id,
   name |-> id,
   description |-> "",
   gridSize |-> [width |-> Len(layout[1]), height |-> Len(layout)],
   maxTurns |-> maxTurns,
   objective |-> "Reach the goal",
   playerStart |-> playerStart,
   layout |-> layout]

\* `#@r.D.G#`
KeyDoorLevel ==
  MkLevel("key-door",
          <<<<"WALL", "EMPTY", "KEY_RED", "EMPTY", "DOOR_RED", "EMPTY", "GOAL", "WALL">>>>,
          [x |-> 1, y |-> 0], 50)

\* `#.TO@.#`
BlockTrapLevel ==
  MkLevel("block-trap",
          <<<<"WALL", "EMPTY", "TRAP", "BLOCK", "EMPTY", "EMPTY", "WALL">>>>,
          [x |-> 4, y |-> 0], 50)

\* Two PORTAL_B tiles: (2,1) comes first by rows, (0,2) first by columns.
PortalLevel ==
  MkLevel("portals",
          <<<<"EMPTY", "PORTAL_A", "EMPTY">>,
            <<"EMPTY", "EMPTY", "PORTAL_B">>,
            <<"PORTAL_B", "EMPTY", "PORTAL_A">>>>,
          [x |-> 0, y |-> 0], 300)

\* A stored level in legacy encodings.
LegacyLevel ==
  MkLevel("legacy",
          <<<<"#", "P", "f", "X", "!", "junk">>,
            <<" WALL ", "key-red", "door red", "portal", "portalb", "null">>>>,
          [x |-> 1, y |-> 0], 200)

\* The tiles of the generated levels.
LevelTiles ==
  {"EMPTY", "WALL", "GOAL", "KEY_RED", "DOOR_RED", "BLOCK", "TRAP",
   "PORTAL_A", "PORTAL_B", "FIXED_BLOCK"}

\* The player at the left end of a corridor of two more tiles.
CorridorLevels ==
  {MkLevel("corridor", <<<<"EMPTY", a, b>>>>, [x |-> 0, y |-> 0], 200) : a, b \in LevelTiles}

\* The player start on any tile, as the editor and the importer allow.
StartTileLevels ==
  {MkLevel("start-tile", <<<<"EMPTY", t, "EMPTY">>>>, [x |-> 1, y |-> 0], 200) : t \in LevelTiles}

\* `#@a.1..X#`
AutoDoorLevel ==
  MkLevel("auto-door",
          <<<<"WALL", "EMPTY", "KEY_RED", "EMPTY", "DOOR_RED", "EMPTY", "EMPTY", "GOAL", "WALL">>>>,
          [x |-> 1, y |-> 0], 50)

\* `#@^...X#`
TrapDeathLevel ==
  MkLevel("trap-death",
          <<<<"WALL", "EMPTY", "TRAP", "EMPTY", "EMPTY", "EMPTY", "GOAL", "WALL">>>>,
          [x |-> 1, y |-> 0], 50)

\* The player between a red key on the left, a red door on the right and a
\* door or nothing above and below; the key lies between two red doors.
DoorCrossLevels ==
  {MkLevel("door-cross",
           <<<<"DOOR_RED", up, "WALL">>,
             <<"KEY_RED", "EMPTY", "DOOR_RED">>,
             <<"DOOR_RED", down, "WALL">>>>,
           [x |-> 1, y |-> 1], 200) : up, down \in {"EMPTY", "DOOR_RED", "DOOR_BLUE"}}

Levels ==
  {KeyDoorLevel, BlockTrapLevel, PortalLevel, LegacyLevel, AutoDoorLevel}
    \cup CorridorLevels \cup StartTileLevels \cup DoorCrossLevels

-----------------------------------------------------------------------------
(* The caller                                                              *)

NoResult == [success |-> FALSE, message |-> Undefined, newStateIs |-> Undefined]

\* No batch is running.
NoBatch ==
  /\ moves = <<>>
  /\ moveIndex = 0
  /\ isRunning = FALSE
  /\ plannedMoves = <<>>

\* The caller holds the state createGame returned for the level.
Created(level) ==
  /\ gameState = createGame(level)
  /\ input = createGame(level)
  /\ call = [fn |-> "createGame", action |-> Undefined]
  /\ result = NoResult
  /\ thrown = Undefined
  /\ returned = None

Init == (\E level \in Levels : Created(level)) /\ NoBatch

\* The caller keeps the newState of the ActionResult r; input is the argument
\* as the call leaves it.
Returned(r, action) ==
  /\ gameState' = r.newState
  /\ input' = r.state
  /\ call' = [fn |-> "executeAction", action |-> action]
  /\ result' = [success |-> r.success, message |-> r.message, newStateIs |-> r.newStateIs]
  /\ UNCHANGED <<batchVars, ioVars>>

\* One call of executeAction on the current state.
Execute(action) == Returned(executeAction(gameState, action, "human"), action)

ExecuteAction ==
  /\ gameState.done \/ gameState.turn < MaxTurn
  /\ \E action \in LegalActions \cup IllegalActions : Execute(action)

UndoMove ==
  /\ gameState' = undoMove(gameState)
  /\ input' = gameState
  /\ call' = [fn |-> "undoMove", action |-> Undefined]
  /\ result' = NoResult
  /\ UNCHANGED <<batchVars, ioVars>>

ResetGame ==
  /\ gameState' = resetGame(gameState)
  /\ input' = gameState
  /\ call' = [fn |-> "resetGame", action |-> Undefined]
  /\ result' = NoResult
  /\ UNCHANGED <<batchVars, ioVars>>

Next == ExecuteAction \/ UndoMove \/ ResetGame

Spec == Init /\ [][Next]_vars

\* The planner of the prompt's worked example: legal actions on the key/door level.
ScenarioInit == Created(KeyDoorLevel) /\ NoBatch

ScenarioExecute ==
  /\ gameState.done \/ gameState.turn < ScenarioTurns
  /\ \E action \in LegalActions : Execute(action)

ScenarioNext == ScenarioExecute \/ UndoMove \/ ResetGame

ScenarioSpec == ScenarioInit /\ [][ScenarioNext]_vars

-----------------------------------------------------------------------------
(* The AI panel: a submitted batch of moves, executed one by one           *)

\* The levels a batch is played on.
\* The corridor with the goal next to the player.
GoalCorridorLevel ==
  MkLevel("corridor", <<<<"EMPTY", "GOAL", "EMPTY">>>>, [x |-> 0, y |-> 0], 200)

BatchLevels == {TrapDeathLevel, KeyDoorLevel, BlockTrapLevel, GoalCorridorLevel}

\* The batches a planner submits: 1 to MaxBatch legal actions.
Batches == UNION {[1..n -> LegalActions] : n \in 1..MaxBatch}

\* The panel is idle on a freshly created game.
BatchInit == (\E level \in BatchLevels : Created(level)) /\ NoBatch

\* AIPanel.handleStart, once the planner has answered: the game is reset and
\* the moves are queued, all pending.
HandleStart ==
  /\ ~isRunning
  /\ plannedMoves = <<>>
  /\ \E response \in Batches :
       /\ moves' = response
       /\ plannedMoves' = [i \in 1..Len(response) |-> "pending"]
  /\ moveIndex' = 0
  /\ isRunning' = TRUE
  /\ gameState' = resetGame(gameState)
  /\ input' = gameState
  /\ call' = [fn |-> "resetGame", action |-> Undefined]
  /\ result' = NoResult
  /\ UNCHANGED ioVars

\* Lines 363-368 of handleAIAction: the new state is kept when the engine
\* reports success.
Handled(r, state) ==
  [called |-> TRUE,
   success |-> r.success,
   gameState |-> IF r.success THEN r.newState ELSE state,
   input |-> r.state,
   result |-> [success |-> r.success, message |-> r.message, newStateIs |-> r.newStateIs]]

\* Mutant of handleAIAction: the move is applied whether or not the game is done.
handleAIActionUnguarded(state, action) == Handled(ApplyAction(state, action, "ai"), state)

\* DungeonGame.handleAIAction: the move is handed to the engine unless the game
\* is done.
handleAIAction(state, action) ==
  IF state.done
  THEN [called |-> FALSE, success |-> FALSE, gameState |-> state, input |-> state,
        result |-> NoResult]
  ELSE Handled(executeAction(state, action, "ai"), state)

\* Mutant of Moved: the batch goes on after a failure too.
MovedGoesOn(h, move) ==
  /\ gameState' = h.gameState
  /\ input' = h.input
  /\ call' = [fn |-> IF h.called THEN "executeAction" ELSE "handleAIAction", action |-> move]
  /\ result' = h.result
  /\ plannedMoves' = [plannedMoves EXCEPT ![moveIndex + 1] =
                        IF h.success THEN "success" ELSE "failed"]
  /\ moveIndex' = moveIndex + 1
  /\ isRunning' = TRUE
  /\ UNCHANGED moves

\* Lines 293-328 of executeNextMove: the move is marked with what the handler
\* h returned; the batch goes on after a success and stops after a failure.
Moved(h, move) ==
  /\ gameState' = h.gameState
  /\ input' = h.input
  /\ call' = [fn |-> IF h.called THEN "executeAction" ELSE "handleAIAction", action |-> move]
  /\ result' = h.result
  /\ plannedMoves' = [plannedMoves EXCEPT ![moveIndex + 1] =
                        IF h.success THEN "success" ELSE "failed"]
  /\ moveIndex' = IF h.success THEN moveIndex + 1 ELSE moveIndex
  /\ isRunning' = h.success
  /\ UNCHANGED moves

\* AIPanel.executeNextMove, one timer tick.
ExecuteNextMove ==
  /\ isRunning
  /\ IF moveIndex >= Len(moves)
     THEN /\ isRunning' = FALSE
          /\ UNCHANGED <<gameState, input, call, result, moves, moveIndex, plannedMoves>>
     ELSE Moved(handleAIAction(gameState, moves[moveIndex + 1]), moves[moveIndex + 1])
  /\ UNCHANGED ioVars

BatchNext == HandleStart \/ ExecuteNextMove

BatchSpec == BatchInit /\ [][BatchNext]_vars

-----------------------------------------------------------------------------
(* A planner that keeps acting until the turn counter passes maxTurns      *)

TurnLimitInit == (\E level \in {KeyDoorLevel, BlockTrapLevel} : Created(level)) /\ NoBatch

\* One more INTERACT, as the UI hands it to the engine.
TurnLimitExecute ==
  /\ gameState.turn < TurnBound
  /\ ~gameState.done
  /\ Execute("INTERACT")

TurnLimitNext == TurnLimitExecute

TurnLimitSpec == TurnLimitInit /\ [][TurnLimitNext]_vars

-----------------------------------------------------------------------------
(* Level ingestion: createGame on layouts of raw values                    *)

\* Raw values of a layout cell: canonical and legacy encodings, null,
\* undefined, empty and blank strings, an unknown string and non-strings.
RawTileValues ==
  {"WALL", "DOOR_RED", "#", "door red", "f", "null", Undefined, "", "   ", "junk"}
    \cup NonStringValues

RawLevels ==
  {MkLevel("raw", <<<<"EMPTY", a, b>>>>, [x |-> 0, y |-> 0], 200) : a, b \in RawTileValues}

IngestInit == Created(KeyDoorLevel) /\ NoBatch

\* One call of createGame; the caller keeps the state it had when the call throws.
CreateGame ==
  /\ \E level \in RawLevels :
       /\ input' = level
       /\ IF createGameThrows(level)
          THEN /\ thrown' = "TypeError"
               /\ UNCHANGED gameState
          ELSE /\ thrown' = Undefined
               /\ gameState' = createGame(level)
  /\ call' = [fn |-> "createGame", action |-> Undefined]
  /\ result' = NoResult
  /\ UNCHANGED <<batchVars, returned>>

IngestNext == CreateGame

IngestSpec == IngestInit /\ [][IngestNext]_vars

-----------------------------------------------------------------------------
(* Calls of normalizeTileType on raw tile values                           *)

\* The raw values normalizeTileType is called with: the strings of the
\* model, null and undefined.
NormalizeInputs == DOMAIN CharTable \cup {"null", Undefined}

NormalizeInit == Created(KeyDoorLevel) /\ NoBatch

\* One call of normalizeTileType.
NormalizeTileType ==
  /\ \E tileType \in NormalizeInputs :
       /\ input' = tileType
       /\ returned' = Some(normalizeTileType(tileType))
  /\ call' = [fn |-> "normalizeTileType", action |-> Undefined]
  /\ result' = NoResult
  /\ UNCHANGED <<gameState, batchVars, thrown>>

NormalizeNext == NormalizeTileType

NormalizeSpec == NormalizeInit /\ [][NormalizeNext]_vars

-----------------------------------------------------------------------------
(* Calls with legal actions only                                           *)

LegalExecuteAction ==
  /\ gameState.done \/ gameState.turn < MaxTurn
  /\ \E action \in LegalActions : Execute(action)

LegalNext == LegalExecuteAction \/ UndoMove \/ ResetGame

LegalSpec == Init /\ [][LegalNext]_vars

-----------------------------------------------------------------------------
(* Properties.  In every state, gameState is what the call named by `call` *)
(* returned for the state `input`.                                         *)

\* The last call was executeAction on an Active state.
ActedOnActive == call.fn = "executeAction" /\ ~input.done

\* The last call was executeAction of a legal action on an Active state.
LegalOnActive == ActedOnActive /\ call.action \in LegalActions

\* The last call was a move action on an Active state.
MovedOnActive == ActedOnActive /\ call.action \in MoveDirection

\* The cell next to pos in the direction of a move action.
Ahead(pos, action) ==
  [x |-> pos.x + DIRECTION_DELTAS[action].x, y |-> pos.y + DIRECTION_DELTAS[action].y]

InGrid(state, pos) ==
  pos.x \in 0..(state.gridSize.width - 1) /\ pos.y \in 0..(state.gridSize.height - 1)

TileAt(state, pos) == state.grid[pos.y + 1][pos.x + 1]

IsClosedDoor(tile) == IsDoor(tile.type) /\ tile.isOpen # "true"

IsLooseBlock(tile) == tile.type = "BLOCK" /\ tile.isFixed # "true"

\* Position, grid and inventory of the result are those of the input.
SameBoard == 
  /\ gameState.playerPosition = input.playerPosition
  /\ gameState.grid = input.grid
  /\ gameState.inventory = input.inventory

\* C1: Turn monotonicity. A legal action on an Active state returns a state whose
\* turn is the input's turn plus one, also when the action is a no-op.
C1_TurnMonotonic == LegalOnActive => gameState.turn = input.turn + 1

\* A no-op (nothing to interact with) after an earlier action still counted a turn.
C1_Witness ==
  /\ LegalOnActive
  /\ result.message = "Interact (no-op: nothing to interact with)"
  /\ SameBoard
  /\ input.turn = 1
  /\ gameState.turn = 2

\* C2: Absorbing terminal state. executeAction on a state with done = true reports
\* success = false and returns turn, grid, playerPosition, inventory and moveHistory
\* as they were, whatever the action and however often it is repeated.
C2_TerminalAbsorbing ==
  (call.fn = "executeAction" /\ input.done) =>
    /\ result.success = FALSE
    /\ gameState.done
    /\ gameState.turn = input.turn
    /\ gameState.grid = input.grid
    /\ gameState.playerPosition = input.playerPosition
    /\ gameState.inventory = input.inventory
    /\ gameState.moveHistory = input.moveHistory

\* A move was attempted on a finished game.
C2_Witness ==
  /\ call.fn = "executeAction"
  /\ call.action \in MoveDirection
  /\ input.done
  /\ result.message = "Game is already finished"

\* C3: Undo inverse. When a legal action on an Active state S produced S', undoMove(S')
\* has the playerPosition, grid and inventory of S, the turn of S, and done = false.
C3_UndoInverse ==
  LegalOnActive =>
    LET undone == undoMove(gameState)
    IN  /\ undone.playerPosition = input.playerPosition
        /\ undone.grid = input.grid
        /\ undone.inventory = input.inventory
        /\ undone.turn = input.turn
        /\ undone.done = FALSE

\* An action changed position, grid and inventory and ended the game or not; the undo
\* of a key pickup has something of each kind to restore.
C3_Witness ==
  /\ LegalOnActive
  /\ gameState.playerPosition # input.playerPosition
  /\ gameState.grid # input.grid
  /\ gameState.inventory # input.inventory
  /\ undoMove(gameState).grid = input.grid
  /\ undoMove(gameState).inventory = input.inventory

\* A move from pos in the state is one the claim calls a no-op: off the grid, into a
\* WALL, into a closed door, or into a block whose next cell is off the grid or holds
\* anything but EMPTY or TRAP.
BlockedMove(state, action) ==
  LET target == Ahead(state.playerPosition, action)
      beyond == Ahead(target, action)
  IN  \/ ~InGrid(state, target)
      \/ /\ InGrid(state, target)
         /\ \/ TileAt(state, target).type = "WALL"
            \/ IsClosedDoor(TileAt(state, target))
            \/ /\ IsLooseBlock(TileAt(state, target))
               /\ \/ ~InGrid(state, beyond)
                  \/ /\ InGrid(state, beyond)
                     /\ TileAt(state, beyond).type \notin {"EMPTY", "TRAP"}

PlayerOnOpenTile(state) ==
  /\ InGrid(state, state.playerPosition)
  /\ TileAt(state, state.playerPosition).type # "WALL"
  /\ ~IsClosedDoor(TileAt(state, state.playerPosition))
  /\ ~IsLooseBlock(TileAt(state, state.playerPosition))

\* C5 as stated: in every state reachable from createGame(level) by executeAction,
\* undoMove and resetGame the player is inside the grid and not on a WALL, a closed
\* DOOR or a non-fixed BLOCK.
C5_PlayerOnOpenTile == PlayerOnOpenTile(gameState)

\* C5 as amended: the same, for the levels whose playerStart createGame puts on such a tile.
C5_PlayerOnOpenTileFromOpenStart ==
  PlayerOnOpenTile(createGame(gameState.level)) => PlayerOnOpenTile(gameState)

\* From such a start the player pushed a block and stands where the block was.
C5_Witness ==
  /\ PlayerOnOpenTile(createGame(gameState.level))
  /\ MovedOnActive
  /\ gameState.playerPosition # input.playerPosition
  /\ IsLooseBlock(TileAt(input, gameState.playerPosition))
  /\ PlayerOnOpenTile(gameState)

\* C6: Terminal outcome. After executeAction on an Active state the state is done with
\* success when the tile under the player is GOAL, done without success when it is
\* TRAP, and not done otherwise; in every state success implies done, and done implies
\* the player is on a GOAL (success) or a TRAP (no success).
C6_TerminalOutcome ==
  LET under == TileAt(gameState, gameState.playerPosition).type
  IN  /\ ActedOnActive =>
           /\ under = "GOAL" => (gameState.done /\ gameState.success)
           /\ under = "TRAP" => (gameState.done /\ ~gameState.success)
           /\ under \notin {"GOAL", "TRAP"} => ~gameState.done
      /\ gameState.success => gameState.done
      /\ gameState.done => under \in {"GOAL", "TRAP"}
      /\ gameState.done => (gameState.success <=> under = "GOAL")

\* The player walked onto a trap: the action succeeded, the game is lost.
C6_Witness ==
  /\ MovedOnActive
  /\ gameState.playerPosition # input.playerPosition
  /\ TileAt(gameState, gameState.playerPosition).type = "TRAP"
  /\ gameState.done
  /\ ~gameState.success
  /\ result.success

\* C7: Key collection is idempotent. The inventory never holds a colour twice, also
\* after walking onto a key of a colour already held or back onto a collected key's cell.
C7_KeysDistinct ==
  \A i, j \in 1..Len(gameState.inventory.keys) :
    i # j => gameState.inventory.keys[i] # gameState.inventory.keys[j]

\* The player holding RED walked onto another red key.
C7_Witness ==
  /\ MovedOnActive
  /\ gameState.playerPosition # input.playerPosition
  /\ TileAt(input, gameState.playerPosition).type = "KEY_RED"
  /\ includes(input.inventory.keys, "RED")
  /\ gameState.inventory.keys = <<"RED">>

\* A move in the state pushes a non-fixed block onto a trap.
PushOntoTrap(state, action) ==
  LET target == Ahead(state.playerPosition, action)
      beyond == Ahead(target, action)
  IN  /\ InGrid(state, target)
      /\ IsLooseBlock(TileAt(state, target))
      /\ InGrid(state, beyond)
      /\ TileAt(state, beyond).type = "TRAP"

\* The tile types of row y of the grid.
RowTypes(state, y) == [c \in 1..state.gridSize.width |-> state.grid[y + 1][c].type]

\* C8: Block-onto-trap neutralization. A move into a non-fixed block whose next cell is
\* a TRAP makes both cells EMPTY, puts the player where the block was and does not end
\* the game (`#.TO@.#` with LEFT becomes `#..@..#`); the former trap cell holds no
\* trap afterwards, and the player standing on it is not done.
C8_BlockNeutralizesTrap ==
  /\ (MovedOnActive /\ PushOntoTrap(input, call.action)) =>
       LET target == Ahead(input.playerPosition, call.action)
           beyond == Ahead(target, call.action)
       IN  /\ TileAt(gameState, target).type = "EMPTY"
           /\ TileAt(gameState, beyond).type = "EMPTY"
           /\ gameState.playerPosition = target
           /\ ~gameState.done
           /\ \A p \in Cells(input) \ {target, beyond} : TileAt(gameState, p) = TileAt(input, p)
  /\ (MovedOnActive /\ input = createGame(BlockTrapLevel) /\ call.action = "LEFT") =>
       /\ RowTypes(gameState, 0) = <<"WALL", "EMPTY", "EMPTY", "EMPTY", "EMPTY", "EMPTY", "WALL">>
       /\ gameState.playerPosition = [x |-> 3, y |-> 0]
  /\ \A i \in 1..Len(gameState.moveHistory) :
       LET trap == gameState.moveHistory[i].neutralizedTrap
       IN  trap # None =>
             /\ TileAt(gameState, trap[1]).type # "TRAP"
             /\ gameState.playerPosition = trap[1] => ~gameState.done

\* On `#.TO@.#` the player pushed the block onto the trap and then walked onto the
\* former trap cell.
C8_Witness ==
  /\ gameState.level = BlockTrapLevel
  /\ Len(gameState.moveHistory) = 2
  /\ gameState.moveHistory[1].neutralizedTrap = Some([x |-> 2, y |-> 0])
  /\ MovedOnActive
  /\ gameState.playerPosition = [x |-> 2, y |-> 0]
  /\ ~gameState.done

\* The cells of the state that hold a tile of the type.
CellsOfType(state, type) == {p \in Cells(state) : TileAt(state, p).type = type}

\* The cell of a non-empty set that a row-by-row scan meets first.
FirstByRows(cells) ==
  CHOOSE p \in cells : \A q \in cells : q.y > p.y \/ (q.y = p.y /\ q.x >= p.x)

\* The move of the last call went onto a tile of type `portal`: the player is on the
\* first cell of type `partner` if there is one, and on the portal itself if not.
PortalRule(portal, partner) ==
  LET target == Ahead(input.playerPosition, call.action)
  IN  (MovedOnActive /\ InGrid(input, target) /\ TileAt(input, target).type = portal) =>
        /\ result.success
        /\ IF CellsOfType(input, partner) = {}
           THEN gameState.playerPosition = target
           ELSE gameState.playerPosition = FirstByRows(CellsOfType(input, partner))

\* C9: Portal symmetry. A move onto PORTAL_A puts the player on the row-major first
\* PORTAL_B cell and a move onto PORTAL_B on the first PORTAL_A cell; with no partner
\* tile in the grid the player stays on the portal and the action succeeds.
C9_PortalSymmetry ==
  /\ PortalRule("PORTAL_A", "PORTAL_B")
  /\ PortalRule("PORTAL_B", "PORTAL_A")

\* With two PORTAL_B tiles, (2,1) and (0,2), the player stepped onto PORTAL_A and is
\* on (2,1).
C9_Witness ==
  /\ MovedOnActive
  /\ InGrid(input, Ahead(input.playerPosition, call.action))
  /\ TileAt(input, Ahead(input.playerPosition, call.action)).type = "PORTAL_A"
  /\ CellsOfType(input, "PORTAL_B") = {[x |-> 2, y |-> 1], [x |-> 0, y |-> 2]}
  /\ gameState.playerPosition = [x |-> 2, y |-> 1]

\* The actions of a move history, oldest first.
ActionsOf(history) == [i \in 1..Len(history) |-> history[i].action]

\* C10: Key/door scenario. On `#@r.D.G#` the sequence RIGHT, RIGHT, INTERACT, RIGHT,
\* RIGHT, RIGHT ends with done, success and the inventory [RED].
C10_KeyDoorScenario ==
  (/\ gameState.level = KeyDoorLevel
   /\ ActionsOf(gameState.moveHistory) =
        <<"RIGHT", "RIGHT", "INTERACT", "RIGHT", "RIGHT", "RIGHT">>) =>
    /\ gameState.done
    /\ gameState.success
    /\ gameState.inventory.keys = <<"RED">>

\* The six actions were played and the player is on the goal at x = 6.
C10_Witness ==
  /\ gameState.level = KeyDoorLevel
  /\ ActionsOf(gameState.moveHistory) =
       <<"RIGHT", "RIGHT", "INTERACT", "RIGHT", "RIGHT", "RIGHT">>
  /\ gameState.turn = 6
  /\ gameState.playerPosition = [x |-> 6, y |-> 0]
  /\ gameState.done
  /\ gameState.success

-----------------------------------------------------------------------------
(* C11: the trap-death batch                                               *)

\* The batch RIGHT, RIGHT, RIGHT has been submitted on `#@^...X#`.
TrapDeathBatch ==
  /\ gameState.level = TrapDeathLevel
  /\ moves = <<"RIGHT", "RIGHT", "RIGHT">>

\* The game has ended on a trap.
DiedOnTrap ==
  /\ gameState.done
  /\ ~gameState.success
  /\ TileAt(gameState, gameState.playerPosition).type = "TRAP"

\* C11 as stated: with the batch RIGHT, RIGHT, RIGHT on `#@^...X#`, the game
\* ends on the trap after the second RIGHT (two moves made, only the third
\* still queued).
C11_TrapAfterSecondRight ==
  (TrapDeathBatch /\ gameState.done) =>
    /\ DiedOnTrap
    /\ gameState.turn = 2
    /\ ActionsOf(gameState.moveHistory) = <<"RIGHT", "RIGHT">>
    /\ plannedMoves[3] = "pending"

\* C11: with the batch RIGHT, RIGHT, RIGHT on `#@^...X#` (player at x=1, TRAP
\* at x=2), the first RIGHT puts the player on the TRAP and ends the game
\* with done=true, success=false; the second RIGHT is refused without
\* reaching the engine and the third stays pending: neither executes.
C11_TrapAfterFirstRight ==
  TrapDeathBatch =>
    /\ gameState.turn <= 1
    /\ moveIndex <= 1
    /\ plannedMoves[2] \in {"pending", "failed"}
    /\ plannedMoves[3] = "pending"
    /\ moveIndex = 1 =>
         /\ DiedOnTrap
         /\ gameState.turn = 1
         /\ gameState.playerPosition = [x |-> 2, y |-> 0]
         /\ gameState.message = "You stepped on a trap! Game over."
         /\ ActionsOf(gameState.moveHistory) = <<"RIGHT">>
         /\ plannedMoves[1] = "success"
    /\ (call.fn = "executeAction" /\ moveIndex = 1) => result.success

\* The batch has stopped: first move made, second refused, third never tried.
C11_Witness ==
  /\ TrapDeathBatch
  /\ ~isRunning
  /\ call = [fn |-> "handleAIAction", action |-> "RIGHT"]
  /\ plannedMoves = <<"success", "failed", "pending">>
  /\ DiedOnTrap
  /\ gameState.turn = 1

-----------------------------------------------------------------------------
(* C12: the turn limit                                                     *)

\* C12: maxTurns is max(level.maxTurns, 200) and, in every state reached by
\* executeAction, the turn counter is at most maxTurns.
C12_TurnWithinLimit ==
  /\ gameState.maxTurns = Max(gameState.level.maxTurns, 200)
  /\ gameState.turn <= gameState.maxTurns

-----------------------------------------------------------------------------
(* C13: doors that open when walked into with the key                      *)

\* The move is into a closed door whose key the player holds.
MoveIntoDoorWithKey ==
  /\ MovedOnActive
  /\ InGrid(input, Ahead(input.playerPosition, call.action))
  /\ IsClosedDoor(TileAt(input, Ahead(input.playerPosition, call.action)))
  /\ includes(input.inventory.keys,
              getKeyColor(TileAt(input, Ahead(input.playerPosition, call.action)).type))

\* C13: moving into a closed door while holding the matching key opens the
\* door and the player passes through, without an INTERACT action.
C13_AutoOpenDoor ==
  MoveIntoDoorWithKey =>
    /\ gameState.playerPosition = Ahead(input.playerPosition, call.action)
    /\ ~IsClosedDoor(TileAt(gameState, gameState.playerPosition))

-----------------------------------------------------------------------------
(* C14: the state createGame returns                                       *)

\* The tile createGame builds from a raw layout value.
TileFromRaw(raw, tile) ==
  /\ tile.type = normalizeTileType(raw).type
  /\ tile.isFixed = "true" <=> normalizeTileType(raw).isFixed = "true"
  /\ IsDoor(tile.type) => tile.isOpen = "false"

\* C14: createGame(level) returns turn=0, maxTurns = max(level.maxTurns, 200),
\* playerPosition = level.playerStart, an empty inventory, done=false,
\* success=false, an empty moveHistory, a grid that is the cell-by-cell
\* normalization of level.layout, and every DOOR tile closed.
C14_CreateGameState ==
  call.fn = "createGame" =>
    LET level == gameState.level
    IN  /\ level \in Levels
        /\ gameState.turn = 0
        /\ gameState.maxTurns = (IF level.maxTurns >= 200 THEN level.maxTurns ELSE 200)
        /\ gameState.playerPosition = level.playerStart
        /\ gameState.inventory = [keys |-> <<>>]
        /\ ~gameState.done
        /\ ~gameState.success
        /\ gameState.moveHistory = <<>>
        /\ gameState.startTime = "null" /\ gameState.endTime = "null"
        /\ Len(gameState.grid) = Len(level.layout)
        /\ \A r \in 1..Len(level.layout) :
             /\ Len(gameState.grid[r]) = Len(level.layout[r])
             /\ \A c \in 1..Len(level.layout[r]) :
                  TileFromRaw(level.layout[r][c], gameState.grid[r][c])

\* createGame of the key/door level: maxTurns raised from 50 to 200, the door closed.
C14_Witness ==
  /\ call.fn = "createGame"
  /\ gameState.level = KeyDoorLevel
  /\ gameState.level.maxTurns = 50
  /\ gameState.maxTurns = 200
  /\ gameState.grid[1][5] = [type |-> "DOOR_RED", isFixed |-> Undefined, isOpen |-> "false"]

-----------------------------------------------------------------------------
(* C15: reset                                                              *)

\* C15: resetGame of any reached state equals createGame(level) in grid,
\* playerPosition, inventory, turn (0), done (false), success (false) and
\* moveHistory (empty); no engine call changes the level blueprint.
C15_ResetRestoresBlueprint ==
  /\ gameState.level = input.level
  /\ gameState.level \in Levels
  /\ call.fn = "resetGame" =>
       /\ gameState.grid = createGame(input.level).grid
       /\ gameState.playerPosition = input.level.playerStart
       /\ gameState.inventory = [keys |-> <<>>]
       /\ gameState.turn = 0
       /\ ~gameState.done
       /\ ~gameState.success
       /\ gameState.moveHistory = <<>>

\* A reset of a game two or more turns in, with a key collected and the board changed.
C15_Witness ==
  /\ call.fn = "resetGame"
  /\ input.turn >= 2
  /\ input.inventory.keys = <<"RED">>
  /\ input.grid # gameState.grid
  /\ input.playerPosition # gameState.playerPosition
  /\ gameState.turn = 0

-----------------------------------------------------------------------------
(* C16: permissive level ingestion                                         *)

\* The raw values that are not a tile encoding: null, undefined, empty and
\* blank strings, an unknown string and the non-string values.
UnrecognizedValues == {"null", Undefined, "", "   ", "junk"} \cup NonStringValues

\* C16: createGame throws on no layout, and every cell whose raw value is not
\* a recognized tile encoding is an EMPTY tile of the grid.
C16_PermissiveIngestion ==
  /\ thrown = Undefined
  /\ \A r \in 1..Len(gameState.level.layout) :
       \A c \in 1..Len(gameState.level.layout[r]) :
         gameState.level.layout[r][c] \in UnrecognizedValues
           => gameState.grid[r][c].type = "EMPTY"

-----------------------------------------------------------------------------
(* C17: the input state and the object returned as newState                *)

-----------------------------------------------------------------------------
(* C20: what executeAction reports as a failure                            *)

\* C20: on an Active state executeAction reports success=false exactly for an
\* action outside {UP, DOWN, LEFT, RIGHT, INTERACT}; every legal action, no-op
\* or not, reports success=true.
C20_FailureOnlyForIllegalAction ==
  ActedOnActive => (result.success <=> call.action \in LegalActions)

\* An action outside the legal set, refused on an Active state.
C20_Witness ==
  /\ ActedOnActive
  /\ call.action \notin LegalActions
  /\ ~result.success
  /\ SameBoard

-----------------------------------------------------------------------------
(* Level storage: exportToJSON and importFromJSON                          *)

\* JSON.stringify of one layout cell, read back by JSON.parse: undefined in an
\* array is written as null, every other value as itself.
JSONCell(cell) == IF cell = Undefined THEN "null" ELSE cell

\* JSON.stringify(level, null, 2), as the value JSON.parse reads back.
exportToJSON(level) ==
  [level EXCEPT !.layout =
     [r \in 1..Len(level.layout) |->
       [c \in 1..Len(level.layout[r]) |-> JSONCell(level.layout[r][c])]]]

\* The level read from a JSON text, or null (None) when a required field is
\* missing or falsy; layout, playerStart and gridSize of a level are objects
\* and so truthy.
importFromJSON(json) ==
  IF json.id = "" \/ json.name = ""
  THEN None
  ELSE Some([id |-> json.id,
             name |-> json.name,
             description |-> IF json.description = "" THEN "" ELSE json.description,
             gridSize |-> json.gridSize,
             maxTurns |-> IF json.maxTurns = 0 THEN 200 ELSE json.maxTurns,
             objective |-> IF json.objective = "" THEN "Reach the goal" ELSE json.objective,
             playerStart |-> json.playerStart,
             layout |-> json.layout])

\* Levels as the editor saves them: any text in the text fields, the empty
\* text included, and any turn budget.
StoredLevels ==
  {[id |-> id,
    name |-> name,
    description |-> description,
    gridSize |-> [width |-> Len(layout[1]), height |-> Len(layout)],
    maxTurns |-> maxTurns,
    objective |-> objective,
    playerStart |-> [x |-> 1, y |-> 0],
    layout |-> layout] :
     id \in {"", "level-1"},
     name \in {"", "Demo"},
     description \in {"", "A key and a door"},
     maxTurns \in {0, 50, 200},
     objective \in {"", "Reach the goal", "Escape"},
     layout \in {KeyDoorLevel.layout, LegacyLevel.layout}}

StorageInit ==
  /\ \E level \in StoredLevels : input = level
  /\ gameState = createGame(KeyDoorLevel)
  /\ call = [fn |-> "createBlankLevel", action |-> Undefined]
  /\ result = NoResult
  /\ thrown = Undefined
  /\ returned = None
  /\ NoBatch

\* The level the caller holds is exported.
ExportToJSON ==
  /\ call.fn # "exportToJSON"
  /\ returned' = Some(exportToJSON(input))
  /\ call' = [fn |-> "exportToJSON", action |-> Undefined]
  /\ UNCHANGED <<gameState, input, result, batchVars, thrown>>

\* The exported text is imported.
ImportFromJSON ==
  /\ call.fn = "exportToJSON"
  /\ returned' = importFromJSON(returned[1])
  /\ call' = [fn |-> "importFromJSON", action |-> Undefined]
  /\ UNCHANGED <<gameState, input, result, batchVars, thrown>>

StorageNext == ExportToJSON \/ ImportFromJSON

StorageSpec == StorageInit /\ [][StorageNext]_vars

-----------------------------------------------------------------------------
(* C21: export and import of a level                                       *)

\* C21: importFromJSON(exportToJSON(level)) is a level equal to the original
\* in id, name, description, gridSize, maxTurns, objective, playerStart and
\* layout, for every level.
C21_RoundTripLossless ==
  call.fn = "importFromJSON" =>
    /\ returned # None
    /\ returned[1].id = input.id
    /\ returned[1].name = input.name
    /\ returned[1].description = input.description
    /\ returned[1].gridSize = input.gridSize
    /\ returned[1].maxTurns = input.maxTurns
    /\ returned[1].objective = input.objective
    /\ returned[1].playerStart = input.playerStart
    /\ returned[1].layout = input.layout

-----------------------------------------------------------------------------
(* Prompt generation: the ASCII snapshot of a state                        *)

\* Longest move history of a state that is drawn.
PromptTurns == 2

tileToChar(type) ==
  CASE type = "WALL" -> "#"
    [] type = "EMPTY" -> "."
    [] type = "GOAL" -> "G"
    [] type = "KEY_RED" -> "r"
    [] type = "KEY_BLUE" -> "b"
    [] type = "KEY_GREEN" -> "g"
    [] type = "KEY_YELLOW" -> "y"
    [] type = "DOOR_RED" -> "D"
    [] type = "DOOR_BLUE" -> "E"
    [] type = "DOOR_GREEN" -> "F"
    [] type = "DOOR_YELLOW" -> "H"
    [] type = "BLOCK" -> "O"
    [] type = "TRAP" -> "T"
    [] type = "PORTAL_A" -> "A"
    [] type = "PORTAL_B" -> "Z"
    [] OTHER -> "?"

\* grid[y]?.[x] is undefined: the cell lies outside the grid's rows or columns.
NoTile(grid, x, y) == y + 1 > Len(grid) \/ x + 1 > Len(grid[y + 1])

\* Mutant of gameStateToAscii: the player is drawn on empty cells only.
gameStateToAsciiTileOverPlayer(state) ==
  [row \in 1..state.gridSize.height |->
    [col \in 1..state.gridSize.width |->
      IF NoTile(state.grid, col - 1, row - 1) THEN "?"
      ELSE IF /\ state.playerPosition = [x |-> col - 1, y |-> row - 1]
              /\ state.grid[row][col].type = "EMPTY"
      THEN "@"
      ELSE tileToChar(state.grid[row][col].type)]]

\* The lines of the text, before lines.join('\n').
gameStateToAscii(state) ==
  [row \in 1..state.gridSize.height |->
    [col \in 1..state.gridSize.width |->
      IF state.playerPosition.x = col - 1 /\ state.playerPosition.y = row - 1 THEN "@"
      ELSE IF NoTile(state.grid, col - 1, row - 1) THEN "?"
      ELSE tileToChar(state.grid[row][col].type)]]

PromptInit == Init

PromptExecute ==
  /\ gameState.done \/ gameState.turn < PromptTurns
  /\ \E action \in LegalActions : Execute(action)

\* The state the caller holds is drawn for the planner.
GameStateToAscii ==
  /\ returned' = gameStateToAscii(gameState)
  /\ input' = gameState
  /\ call' = [fn |-> "gameStateToAscii", action |-> Undefined]
  /\ result' = NoResult
  /\ UNCHANGED <<gameState, batchVars, thrown>>

PromptNext == PromptExecute \/ GameStateToAscii

PromptSpec == PromptInit /\ [][PromptNext]_vars

-----------------------------------------------------------------------------
(* C22: the planner-facing snapshot                                        *)

\* The cells of the text that show the player glyph.
PlayerGlyphs(text) ==
  {p \in (1..Len(text)) \X (1..Len(text[1])) : text[p[1]][p[2]] = "@"}

\* C22: for a state whose player is in bounds, gameStateToAscii gives
\* gridSize.height lines in ascending y order, each of gridSize.width glyphs,
\* with `@` at exactly one cell, the player's, whatever tile is there, and the
\* glyph of its tile kind at every other cell.
C22_AsciiSnapshot ==
  (call.fn = "gameStateToAscii" /\ InGrid(input, input.playerPosition)) =>
    /\ Len(returned) = input.gridSize.height
    /\ \A row \in 1..input.gridSize.height :
         /\ Len(returned[row]) = input.gridSize.width
         /\ \A col \in 1..input.gridSize.width :
              returned[row][col] =
                IF input.playerPosition = [x |-> col - 1, y |-> row - 1]
                THEN "@"
                ELSE tileToChar(input.grid[row][col].type)
    /\ PlayerGlyphs(returned) =
         {<<input.playerPosition.y + 1, input.playerPosition.x + 1>>}

\* The snapshot of a state whose player stands on a portal after a teleport.
C22_Witness ==
  /\ call.fn = "gameStateToAscii"
  /\ input.gridSize.height = 3
  /\ input.turn >= 1
  /\ TileAt(input, input.playerPosition).type \in {"PORTAL_A", "PORTAL_B"}
  /\ returned[input.playerPosition.y + 1][input.playerPosition.x + 1] = "@"
  /\ \E row \in 1..3 : \E col \in 1..3 : returned[row][col] \in {"A", "Z"}

-----------------------------------------------------------------------------
(* C23: undo over the whole history                                        *)

\* The state after the actions, each applied to the newState of the one before,
\* starting from createGame(level).
RECURSIVE Replay(_, _)
Replay(level, actions) ==
  IF actions = <<>>
  THEN createGame(level)
  ELSE executeAction(Replay(level, SubSeq(actions, 1, Len(actions) - 1)),
                     actions[Len(actions)], "human").newState

\* undoMove applied k times.
RECURSIVE UndoTimes(_, _)
UndoTimes(state, k) == IF k = 0 THEN state ELSE undoMove(UndoTimes(state, k - 1))

\* Every action since createGame was a valid one: each is in the history.
OnlyValidActions == gameState.turn = Len(gameState.moveHistory)

\* C23: after n valid actions from createGame(level), k undos (k <= n) give
\* the playerPosition, grid, inventory and turn of the state after the first
\* n - k actions; n undos give turn 0, an empty history and the initial grid,
\* position and inventory.
C23_UndoIsLIFO ==
  OnlyValidActions =>
    LET n == Len(gameState.moveHistory)
        actions == ActionsOf(gameState.moveHistory)
        initial == createGame(gameState.level)
    IN  /\ \A k \in 0..n :
             LET undone == UndoTimes(gameState, k)
                 earlier == Replay(gameState.level, SubSeq(actions, 1, n - k))
             IN  /\ undone.playerPosition = earlier.playerPosition
                 /\ undone.grid = earlier.grid
                 /\ undone.inventory = earlier.inventory
                 /\ undone.turn = n - k
                 /\ undone.turn = earlier.turn
        /\ UndoTimes(gameState, n).turn = 0
        /\ UndoTimes(gameState, n).moveHistory = <<>>
        /\ UndoTimes(gameState, n).grid = initial.grid
        /\ UndoTimes(gameState, n).playerPosition = initial.playerPosition
        /\ UndoTimes(gameState, n).inventory = initial.inventory

\* Three valid actions that each moved the player, one of them changing the
\* grid: the three undos pass through four different positions.
C23_Witness ==
  /\ OnlyValidActions
  /\ Len(gameState.moveHistory) = 3
  /\ gameState.grid # UndoTimes(gameState, 3).grid
  /\ UndoTimes(gameState, 1).playerPosition # gameState.playerPosition
  /\ UndoTimes(gameState, 2).playerPosition # UndoTimes(gameState, 1).playerPosition
  /\ UndoTimes(gameState, 3).playerPosition # UndoTimes(gameState, 2).playerPosition

-----------------------------------------------------------------------------
(* C24: undo of a terminal state                                           *)

\* executeAction accepts the action on the state: the turn is counted and the
\* call is not refused as already finished.
Accepted(state, action) ==
  LET r == executeAction(state, action, "human")
  IN  /\ r.newState.turn = state.turn + 1
      /\ r.success
      /\ r.message # "Game is already finished"

\* C24: when an action on an Active state S produced S' with done=true,
\* undoMove(S') has done=false and success=false, and an executeAction on it
\* is accepted (the turn increments) instead of being refused as finished.
C24_UndoReactivates ==
  (LegalOnActive /\ gameState.done) =>
    /\ ~undoMove(gameState).done
    /\ ~undoMove(gameState).success
    /\ undoMove(gameState).endTime = "null"
    /\ \A action \in LegalActions : Accepted(undoMove(gameState), action)

\* The undo of a game won or lost, and an action accepted on what it returned.
C24_Witness ==
  /\ call.fn = "undoMove"
  /\ input.done
  /\ ~gameState.done
  /\ ~gameState.success
  /\ gameState.turn = input.turn - 1
  /\ Accepted(gameState, "RIGHT")

-----------------------------------------------------------------------------
(* C25: undo with nothing to undo                                          *)

\* C25: undoMove on a state with an empty moveHistory returns the state
\* unchanged (turn, grid, position, inventory, done, success), and the turn
\* counter is never negative.
C25_UndoOnEmptyHistory ==
  /\ gameState.turn >= 0
  /\ (call.fn = "undoMove" /\ input.moveHistory = <<>>) =>
       /\ gameState.turn = input.turn
       /\ gameState.grid = input.grid
       /\ gameState.playerPosition = input.playerPosition
       /\ gameState.inventory = input.inventory
       /\ gameState.done = input.done
       /\ gameState.success = input.success
       /\ gameState = input

\* An undo on the state createGame returned.
C25_Witness ==
  /\ call.fn = "undoMove"
  /\ input.moveHistory = <<>>
  /\ input.turn = 0
  /\ gameState = createGame(gameState.level)

-----------------------------------------------------------------------------
(* C26: a reported failure                                                 *)

\* C26: an action outside the legal set on an Active state returns
\* success=false, the turn is still incremented by 1, no MoveRecord is
\* appended, and grid, playerPosition and inventory are unchanged.
C26_FailureKeepsTurn ==
  (ActedOnActive /\ call.action \notin LegalActions) =>
    /\ ~result.success
    /\ gameState.turn = input.turn + 1
    /\ gameState.moveHistory = input.moveHistory
    /\ gameState.grid = input.grid
    /\ gameState.playerPosition = input.playerPosition
    /\ gameState.inventory = input.inventory

\* A failure reported two turns in: the history keeps its one record of the
\* one valid action while the turn goes on counting.
C26_Witness ==
  /\ ActedOnActive
  /\ call.action \notin LegalActions
  /\ Len(input.moveHistory) = 1
  /\ Len(gameState.moveHistory) = 1
  /\ input.turn = 2
  /\ gameState.turn = 3

-----------------------------------------------------------------------------
(* C27: the door INTERACT acts on                                          *)

\* The order in which INTERACT looks at the neighbours.
InteractOrder == <<"UP", "DOWN", "LEFT", "RIGHT">>

\* The neighbour in direction InteractOrder[i] is in the grid and a closed door.
ClosedDoorAt(state, i) ==
  /\ InGrid(state, Ahead(state.playerPosition, InteractOrder[i]))
  /\ IsClosedDoor(TileAt(state, Ahead(state.playerPosition, InteractOrder[i])))

\* The player holds the key of the door in direction InteractOrder[i].
HoldsKeyFor(state, i) ==
  includes(state.inventory.keys,
           getKeyColor(TileAt(state, Ahead(state.playerPosition, InteractOrder[i])).type))

\* The first closed door in the order, 0 when no neighbour is one.
FirstClosedDoor(state) ==
  IF \E i \in 1..4 : ClosedDoorAt(state, i)
  THEN CHOOSE i \in 1..4 : ClosedDoorAt(state, i) /\ \A j \in 1..(i - 1) : ~ClosedDoorAt(state, j)
  ELSE 0

InteractOnActive == ActedOnActive /\ call.action = "INTERACT"

\* C27: INTERACT looks at the in-bounds neighbours in the order up, down,
\* left, right and acts only on the first closed door: with its key held that
\* door tile becomes EMPTY, without it the action is a no-op and no other
\* door is opened; with no adjacent closed door it is a no-op.
C27_InteractFirstClosedDoor ==
  InteractOnActive =>
    LET first == FirstClosedDoor(input)
        door == Ahead(input.playerPosition, InteractOrder[first])
    IN  IF first # 0 /\ HoldsKeyFor(input, first)
        THEN /\ TileAt(gameState, door) = MkTile("EMPTY")
             /\ \A p \in Cells(input) : p # door => TileAt(gameState, p) = TileAt(input, p)
        ELSE gameState.grid = input.grid

\* The first closed door is one the player has no key for, while a later
\* neighbour is a closed door whose key the player holds: nothing is opened.
C27_Witness ==
  /\ InteractOnActive
  /\ FirstClosedDoor(input) # 0
  /\ ~HoldsKeyFor(input, FirstClosedDoor(input))
  /\ \E j \in 1..4 : ClosedDoorAt(input, j) /\ HoldsKeyFor(input, j)
  /\ gameState.grid = input.grid
  /\ result.message = "Interact (no-op: need blue key)"

-----------------------------------------------------------------------------
(* C28: what INTERACT leaves alone                                         *)

\* The cells whose tile the last call changed.
ChangedCells == {p \in Cells(input) : TileAt(gameState, p) # TileAt(input, p)}

\* C28: an INTERACT action changes neither the player position nor the
\* inventory, so the key that opens a door is kept, and it changes at most
\* one grid cell, a closed door that becomes EMPTY.
C28_InteractFrame ==
  InteractOnActive =>
    /\ gameState.playerPosition = input.playerPosition
    /\ gameState.inventory = input.inventory
    /\ Cardinality(ChangedCells) <= 1
    /\ \A p \in ChangedCells :
         /\ IsClosedDoor(TileAt(input, p))
         /\ TileAt(gameState, p) = MkTile("EMPTY")

\* A second door is opened with the key that has already opened a door of
\* the same colour, next to a third door of that colour which stays closed.
C28_Witness ==
  /\ InteractOnActive
  /\ \E p \in ChangedCells, q \in Cells(input) :
       /\ q # p
       /\ gameState.level.layout[q.y + 1][q.x + 1] = TileAt(input, p).type
       /\ TileAt(input, q) = MkTile("EMPTY")
       /\ includes(gameState.inventory.keys, getKeyColor(TileAt(input, p).type))
  /\ Cardinality(ChangedCells) = 1

-----------------------------------------------------------------------------
(* C29: a block that cannot be pushed                                      *)

\* The last call was a move of the player into a non-fixed BLOCK.
MovedIntoBlock ==
  /\ MovedOnActive
  /\ InGrid(input, Ahead(input.playerPosition, call.action))
  /\ IsLooseBlock(TileAt(input, Ahead(input.playerPosition, call.action)))

\* The cell the pushed block would go to.
BlockTarget == Ahead(Ahead(input.playerPosition, call.action), call.action)

\* The block's next cell is outside the grid or holds something other than
\* EMPTY or TRAP.
PushBlocked ==
  \/ ~InGrid(input, BlockTarget)
  \/ TileAt(input, BlockTarget).type \notin {"EMPTY", "TRAP"}

\* The cells that hold a non-fixed BLOCK in state.
LooseBlocks(state) == {p \in Cells(state) : IsLooseBlock(TileAt(state, p))}

\* C29: a move into a non-fixed BLOCK whose next cell is out of bounds or
\* holds anything but EMPTY or TRAP is a no-op (grid and player position
\* unchanged), and no action moves more than one block.
C29_PushFailure ==
  /\ (MovedIntoBlock /\ PushBlocked) =>
       /\ gameState.grid = input.grid
       /\ gameState.playerPosition = input.playerPosition
  /\ ActedOnActive =>
       /\ Cardinality(LooseBlocks(gameState) \ LooseBlocks(input)) <= 1
       /\ Cardinality(LooseBlocks(input) \ LooseBlocks(gameState)) <= 1

\* A block with another block behind it is not pushed.
C29_Witness ==
  /\ MovedIntoBlock
  /\ InGrid(input, BlockTarget)
  /\ IsLooseBlock(TileAt(input, BlockTarget))
  /\ gameState.grid = input.grid
  /\ gameState.playerPosition = input.playerPosition

\* A block at the edge of the grid is not pushed out of it.
C29_EdgeReached ==
  /\ MovedIntoBlock
  /\ ~InGrid(input, BlockTarget)
  /\ gameState.grid = input.grid

-----------------------------------------------------------------------------
(* C30: a block pushed into empty space                                    *)

\* The last call pushed a non-fixed BLOCK towards an EMPTY cell.
PushedIntoEmpty ==
  /\ MovedIntoBlock
  /\ InGrid(input, BlockTarget)
  /\ TileAt(input, BlockTarget).type = "EMPTY"

\* C30: when the player moves into a non-fixed BLOCK whose next cell is
\* EMPTY, that cell becomes a non-fixed BLOCK, the block's former cell
\* becomes EMPTY, the player ends on the block's former cell and the number
\* of BLOCK tiles in the grid is unchanged.
C30_PushIntoEmpty ==
  PushedIntoEmpty =>
    /\ IsLooseBlock(TileAt(gameState, BlockTarget))
    /\ TileAt(gameState, Ahead(input.playerPosition, call.action)).type = "EMPTY"
    /\ gameState.playerPosition = Ahead(input.playerPosition, call.action)
    /\ Cardinality(CellsOfType(gameState, "BLOCK")) = Cardinality(CellsOfType(input, "BLOCK"))

\* A block has been pushed one cell on, with the player behind it.
C30_Witness ==
  /\ PushedIntoEmpty
  /\ IsLooseBlock(TileAt(gameState, BlockTarget))
  /\ gameState.playerPosition = Ahead(input.playerPosition, call.action)
  /\ TileAt(gameState, gameState.playerPosition).type = "EMPTY"
  /\ gameState.turn = input.turn + 1

-----------------------------------------------------------------------------
(* C31: picking up a key                                                   *)

\* The cell the player of the last call moved towards.
MoveTarget == Ahead(input.playerPosition, call.action)

\* The last call was a move of the player onto a KEY tile.
MovedOntoKey ==
  /\ MovedOnActive
  /\ InGrid(input, MoveTarget)
  /\ IsKey(TileAt(input, MoveTarget).type)

\* The colour of that key.
LandedKeyColor == getKeyColor(TileAt(input, MoveTarget).type)

\* C31: a move onto a KEY tile whose colour is not held adds the colour to
\* the inventory and rewrites the tile to EMPTY in the same action; when the
\* colour is held already the tile and the inventory stay as they are. The
\* player stands on the cell in both cases.
C31_KeyPickup ==
  MovedOntoKey =>
    /\ gameState.playerPosition = MoveTarget
    /\ IF includes(input.inventory.keys, LandedKeyColor)
       THEN /\ TileAt(gameState, MoveTarget) = TileAt(input, MoveTarget)
            /\ gameState.inventory = input.inventory
       ELSE /\ TileAt(gameState, MoveTarget) = MkTile("EMPTY")
            /\ gameState.inventory.keys = Append(input.inventory.keys, LandedKeyColor)

\* The player steps onto a second key of a colour it holds and stands on the
\* key tile.
C31_Witness ==
  /\ MovedOntoKey
  /\ includes(input.inventory.keys, LandedKeyColor)
  /\ gameState.playerPosition = MoveTarget
  /\ IsKey(TileAt(gameState, MoveTarget).type)

\* A key of a new colour is collected.
C31_Collected ==
  /\ MovedOntoKey
  /\ ~includes(input.inventory.keys, LandedKeyColor)
  /\ includes(gameState.inventory.keys, LandedKeyColor)

-----------------------------------------------------------------------------
(* C32: fixed blocks                                                       *)

IsFixedBlock(tile) == tile.type = "BLOCK" /\ tile.isFixed = "true"

\* The last call was a move of the player onto a fixed BLOCK.
MovedOntoFixedBlock ==
  /\ MovedOnActive
  /\ InGrid(input, MoveTarget)
  /\ IsFixedBlock(TileAt(input, MoveTarget))

\* C32: a move into a fixed BLOCK puts the player on that cell without a
\* push, the tile staying a fixed BLOCK, and no action moves or removes a
\* fixed block.
C32_FixedBlockWalkable ==
  /\ MovedOntoFixedBlock =>
       /\ gameState.playerPosition = MoveTarget
       /\ gameState.grid = input.grid
  /\ call.fn = "executeAction" =>
       \A p \in Cells(input) :
         IsFixedBlock(TileAt(input, p)) <=> IsFixedBlock(TileAt(gameState, p))

\* The player stands on a fixed block it has walked onto, with a cell behind
\* it that a pushed block could have gone to.
C32_Witness ==
  /\ MovedOntoFixedBlock
  /\ gameState.playerPosition = MoveTarget
  /\ IsFixedBlock(TileAt(gameState, MoveTarget))
  /\ InGrid(input, Ahead(MoveTarget, call.action))
  /\ TileAt(input, Ahead(MoveTarget, call.action)).type = "EMPTY"

-----------------------------------------------------------------------------
(* C33: the tile normalization table                                       *)

\* What each raw string is to be normalised to.
ExpectedTile ==
     ("" :> [type |-> "EMPTY", isFixed |-> Undefined])
  @@ ("   " :> [type |-> "EMPTY", isFixed |-> Undefined])
  @@ (" !" :> [type |-> "TRAP", isFixed |-> Undefined])
  @@ (" #" :> [type |-> "WALL", isFixed |-> Undefined])
  @@ (" ." :> [type |-> "EMPTY", isFixed |-> Undefined])
  @@ (" BLOCK " :> [type |-> "BLOCK", isFixed |-> Undefined])
  @@ (" BOX" :> [type |-> "BLOCK", isFixed |-> Undefined])
  @@ (" CRATE" :> [type |-> "BLOCK", isFixed |-> Undefined])
  @@ (" DOOR_BLUE " :> [type |-> "DOOR_BLUE", isFixed |-> Undefined])
  @@ (" DOOR_GREEN " :> [type |-> "DOOR_GREEN", isFixed |-> Undefined])
  @@ (" DOOR_RED " :> [type |-> "DOOR_RED", isFixed |-> Undefined])
  @@ (" DOOR_YELLOW " :> [type |-> "DOOR_YELLOW", isFixed |-> Undefined])
  @@ (" E" :> [type |-> "EMPTY", isFixed |-> Undefined])
  @@ (" EMPTY " :> [type |-> "EMPTY", isFixed |-> Undefined])
  @@ (" G" :> [type |-> "GOAL", isFixed |-> Undefined])
  @@ (" GOAL " :> [type |-> "GOAL", isFixed |-> Undefined])
  @@ (" KEY_BLUE " :> [type |-> "KEY_BLUE", isFixed |-> Undefined])
  @@ (" KEY_GREEN " :> [type |-> "KEY_GREEN", isFixed |-> Undefined])
  @@ (" KEY_RED " :> [type |-> "KEY_RED", isFixed |-> Undefined])
  @@ (" KEY_YELLOW " :> [type |-> "KEY_YELLOW", isFixed |-> Undefined])
  @@ (" P" :> [type |-> "EMPTY", isFixed |-> Undefined])
  @@ (" PORTAL" :> [type |-> "PORTAL_A", isFixed |-> Undefined])
  @@ (" PORTALA" :> [type |-> "PORTAL_A", isFixed |-> Undefined])
  @@ (" PORTALB" :> [type |-> "PORTAL_B", isFixed |-> Undefined])
  @@ (" PORTAL_A " :> [type |-> "PORTAL_A", isFixed |-> Undefined])
  @@ (" PORTAL_B " :> [type |-> "PORTAL_B", isFixed |-> Undefined])
  @@ (" TRAP " :> [type |-> "TRAP", isFixed |-> Undefined])
  @@ (" W" :> [type |-> "WALL", isFixed |-> Undefined])
  @@ (" WALL " :> [type |-> "WALL", isFixed |-> Undefined])
  @@ (" X" :> [type |-> "BLOCK", isFixed |-> Undefined])
  @@ ("!" :> [type |-> "TRAP", isFixed |-> Undefined])
  @@ ("#" :> [type |-> "WALL", isFixed |-> Undefined])
  @@ ("." :> [type |-> "EMPTY", isFixed |-> Undefined])
  @@ ("0" :> [type |-> "EMPTY", isFixed |-> Undefined])
  @@ ("?" :> [type |-> "EMPTY", isFixed |-> Undefined])
  @@ ("@" :> [type |-> "EMPTY", isFixed |-> Undefined])
  @@ ("A" :> [type |-> "EMPTY", isFixed |-> Undefined])
  @@ ("BLOCK" :> [type |-> "BLOCK", isFixed |-> Undefined])
  @@ ("BLOCKS" :> [type |-> "EMPTY", isFixed |-> Undefined])
  @@ ("BOX" :> [type |-> "BLOCK", isFixed |-> Undefined])
  @@ ("Block" :> [type |-> "BLOCK", isFixed |-> Undefined])
  @@ ("CRATE" :> [type |-> "BLOCK", isFixed |-> Undefined])
  @@ ("D" :> [type |-> "EMPTY", isFixed |-> Undefined])
  @@ ("DOOR" :> [type |-> "EMPTY", isFixed |-> Undefined])
  @@ ("DOOR BLUE" :> [type |-> "DOOR_BLUE", isFixed |-> Undefined])
  @@ ("DOOR GREEN" :> [type |-> "DOOR_GREEN", isFixed |-> Undefined])
  @@ ("DOOR RED" :> [type |-> "DOOR_RED", isFixed |-> Undefined])
  @@ ("DOOR YELLOW" :> [type |-> "DOOR_YELLOW", isFixed |-> Undefined])
  @@ ("DOOR-BLUE" :> [type |-> "DOOR_BLUE", isFixed |-> Undefined])
  @@ ("DOOR-GREEN" :> [type |-> "DOOR_GREEN", isFixed |-> Undefined])
  @@ ("DOOR-RED" :> [type |-> "DOOR_RED", isFixed |-> Undefined])
  @@ ("DOOR-YELLOW" :> [type |-> "DOOR_YELLOW", isFixed |-> Undefined])
  @@ ("DOORBLUE" :> [type |-> "DOOR_BLUE", isFixed |-> Undefined])
  @@ ("DOORGREEN" :> [type |-> "DOOR_GREEN", isFixed |-> Undefined])
  @@ ("DOORRED" :> [type |-> "DOOR_RED", isFixed |-> Undefined])
  @@ ("DOORYELLOW" :> [type |-> "DOOR_YELLOW", isFixed |-> Undefined])
  @@ ("DOOR_BLUE" :> [type |-> "DOOR_BLUE", isFixed |-> Undefined])
  @@ ("DOOR_GREEN" :> [type |-> "DOOR_GREEN", isFixed |-> Undefined])
  @@ ("DOOR_RED" :> [type |-> "DOOR_RED", isFixed |-> Undefined])
  @@ ("DOOR_YELLOW" :> [type |-> "DOOR_YELLOW", isFixed |-> Undefined])
  @@ ("Door_blue" :> [type |-> "DOOR_BLUE", isFixed |-> Undefined])
  @@ ("Door_green" :> [type |-> "DOOR_GREEN", isFixed |-> Undefined])
  @@ ("Door_red" :> [type |-> "DOOR_RED", isFixed |-> Undefined])
  @@ ("Door_yellow" :> [type |-> "DOOR_YELLOW", isFixed |-> Undefined])
  @@ ("E" :> [type |-> "EMPTY", isFixed |-> Undefined])
  @@ ("EMPTY" :> [type |-> "EMPTY", isFixed |-> Undefined])
  @@ ("Empty" :> [type |-> "EMPTY", isFixed |-> Undefined])
  @@ ("F" :> [type |-> "BLOCK", isFixed |-> "true"])
  @@ ("FIXED" :> [type |-> "EMPTY", isFixed |-> Undefined])
  @@ ("FIXED_BLOCK" :> [type |-> "BLOCK", isFixed |-> "true"])
  @@ ("Fixed Block" :> [type |-> "BLOCK", isFixed |-> "true"])
  @@ ("G" :> [type |-> "GOAL", isFixed |-> Undefined])
  @@ ("GOAL" :> [type |-> "GOAL", isFixed |-> Undefined])
  @@ ("GOAL!" :> [type |-> "EMPTY", isFixed |-> Undefined])
  @@ ("Goal" :> [type |-> "GOAL", isFixed |-> Undefined])
  @@ ("KEY" :> [type |-> "EMPTY", isFixed |-> Undefined])
  @@ ("KEY BLUE" :> [type |-> "KEY_BLUE", isFixed |-> Undefined])
  @@ ("KEY GREEN" :> [type |-> "KEY_GREEN", isFixed |-> Undefined])
  @@ ("KEY RED" :> [type |-> "KEY_RED", isFixed |-> Undefined])
  @@ ("KEY YELLOW" :> [type |-> "KEY_YELLOW", isFixed |-> Undefined])
  @@ ("KEY-BLUE" :> [type |-> "KEY_BLUE", isFixed |-> Undefined])
  @@ ("KEY-GREEN" :> [type |-> "KEY_GREEN", isFixed |-> Undefined])
  @@ ("KEY-RED" :> [type |-> "KEY_RED", isFixed |-> Undefined])
  @@ ("KEY-YELLOW" :> [type |-> "KEY_YELLOW", isFixed |-> Undefined])
  @@ ("KEYBLUE" :> [type |-> "KEY_BLUE", isFixed |-> Undefined])
  @@ ("KEYGREEN" :> [type |-> "KEY_GREEN", isFixed |-> Undefined])
  @@ ("KEYRED" :> [type |-> "KEY_RED", isFixed |-> Undefined])
  @@ ("KEYYELLOW" :> [type |-> "KEY_YELLOW", isFixed |-> Undefined])
  @@ ("KEY_BLUE" :> [type |-> "KEY_BLUE", isFixed |-> Undefined])
  @@ ("KEY_GREEN" :> [type |-> "KEY_GREEN", isFixed |-> Undefined])
  @@ ("KEY_PURPLE" :> [type |-> "EMPTY", isFixed |-> Undefined])
  @@ ("KEY_RED" :> [type |-> "KEY_RED", isFixed |-> Undefined])
  @@ ("KEY_YELLOW" :> [type |-> "KEY_YELLOW", isFixed |-> Undefined])
  @@ ("KEY__RED" :> [type |-> "EMPTY", isFixed |-> Undefined])
  @@ ("Key_blue" :> [type |-> "KEY_BLUE", isFixed |-> Undefined])
  @@ ("Key_green" :> [type |-> "KEY_GREEN", isFixed |-> Undefined])
  @@ ("Key_red" :> [type |-> "KEY_RED", isFixed |-> Undefined])
  @@ ("Key_yellow" :> [type |-> "KEY_YELLOW", isFixed |-> Undefined])
  @@ ("O" :> [type |-> "EMPTY", isFixed |-> Undefined])
  @@ ("P" :> [type |-> "EMPTY", isFixed |-> Undefined])
  @@ ("PORTAL" :> [type |-> "PORTAL_A", isFixed |-> Undefined])
  @@ ("PORTAL A" :> [type |-> "PORTAL_A", isFixed |-> Undefined])
  @@ ("PORTAL B" :> [type |-> "PORTAL_B", isFixed |-> Undefined])
  @@ ("PORTAL-A" :> [type |-> "PORTAL_A", isFixed |-> Undefined])
  @@ ("PORTAL-B" :> [type |-> "PORTAL_B", isFixed |-> Undefined])
  @@ ("PORTALA" :> [type |-> "PORTAL_A", isFixed |-> Undefined])
  @@ ("PORTALB" :> [type |-> "PORTAL_B", isFixed |-> Undefined])
  @@ ("PORTALC" :> [type |-> "EMPTY", isFixed |-> Undefined])
  @@ ("PORTAL_A" :> [type |-> "PORTAL_A", isFixed |-> Undefined])
  @@ ("PORTAL_B" :> [type |-> "PORTAL_B", isFixed |-> Undefined])
  @@ ("PORTAL_C" :> [type |-> "EMPTY", isFixed |-> Undefined])
  @@ ("Portal_a" :> [type |-> "PORTAL_A", isFixed |-> Undefined])
  @@ ("Portal_b" :> [type |-> "PORTAL_B", isFixed |-> Undefined])
  @@ ("T" :> [type |-> "EMPTY", isFixed |-> Undefined])
  @@ ("TRAP" :> [type |-> "TRAP", isFixed |-> Undefined])
  @@ ("Trap" :> [type |-> "TRAP", isFixed |-> Undefined])
  @@ ("W" :> [type |-> "WALL", isFixed |-> Undefined])
  @@ ("W W" :> [type |-> "EMPTY", isFixed |-> Undefined])
  @@ ("WALL" :> [type |-> "WALL", isFixed |-> Undefined])
  @@ ("WALLS" :> [type |-> "EMPTY", isFixed |-> Undefined])
  @@ ("Wall" :> [type |-> "WALL", isFixed |-> Undefined])
  @@ ("X" :> [type |-> "BLOCK", isFixed |-> Undefined])
  @@ ("Z" :> [type |-> "EMPTY", isFixed |-> Undefined])
  @@ ("block" :> [type |-> "BLOCK", isFixed |-> Undefined])
  @@ ("box" :> [type |-> "BLOCK", isFixed |-> Undefined])
  @@ ("crate" :> [type |-> "BLOCK", isFixed |-> Undefined])
  @@ ("door blue" :> [type |-> "DOOR_BLUE", isFixed |-> Undefined])
  @@ ("door green" :> [type |-> "DOOR_GREEN", isFixed |-> Undefined])
  @@ ("door red" :> [type |-> "DOOR_RED", isFixed |-> Undefined])
  @@ ("door yellow" :> [type |-> "DOOR_YELLOW", isFixed |-> Undefined])
  @@ ("door-blue" :> [type |-> "DOOR_BLUE", isFixed |-> Undefined])
  @@ ("door-green" :> [type |-> "DOOR_GREEN", isFixed |-> Undefined])
  @@ ("door-red" :> [type |-> "DOOR_RED", isFixed |-> Undefined])
  @@ ("door-yellow" :> [type |-> "DOOR_YELLOW", isFixed |-> Undefined])
  @@ ("door_blue" :> [type |-> "DOOR_BLUE", isFixed |-> Undefined])
  @@ ("door_green" :> [type |-> "DOOR_GREEN", isFixed |-> Undefined])
  @@ ("door_red" :> [type |-> "DOOR_RED", isFixed |-> Undefined])
  @@ ("door_yellow" :> [type |-> "DOOR_YELLOW", isFixed |-> Undefined])
  @@ ("doorblue" :> [type |-> "DOOR_BLUE", isFixed |-> Undefined])
  @@ ("doorgreen" :> [type |-> "DOOR_GREEN", isFixed |-> Undefined])
  @@ ("doorred" :> [type |-> "DOOR_RED", isFixed |-> Undefined])
  @@ ("dooryellow" :> [type |-> "DOOR_YELLOW", isFixed |-> Undefined])
  @@ ("e" :> [type |-> "EMPTY", isFixed |-> Undefined])
  @@ ("empty" :> [type |-> "EMPTY", isFixed |-> Undefined])
  @@ ("f" :> [type |-> "BLOCK", isFixed |-> "true"])
  @@ ("fixed-block" :> [type |-> "BLOCK", isFixed |-> "true"])
  @@ ("fixed_block" :> [type |-> "BLOCK", isFixed |-> "true"])
  @@ ("g" :> [type |-> "GOAL", isFixed |-> Undefined])
  @@ ("goal" :> [type |-> "GOAL", isFixed |-> Undefined])
  @@ ("junk" :> [type |-> "EMPTY", isFixed |-> Undefined])
  @@ ("key - red" :> [type |-> "KEY_RED", isFixed |-> Undefined])
  @@ ("key blue" :> [type |-> "KEY_BLUE", isFixed |-> Undefined])
  @@ ("key green" :> [type |-> "KEY_GREEN", isFixed |-> Undefined])
  @@ ("key red" :> [type |-> "KEY_RED", isFixed |-> Undefined])
  @@ ("key yellow" :> [type |-> "KEY_YELLOW", isFixed |-> Undefined])
  @@ ("key-blue" :> [type |-> "KEY_BLUE", isFixed |-> Undefined])
  @@ ("key-green" :> [type |-> "KEY_GREEN", isFixed |-> Undefined])
  @@ ("key-red" :> [type |-> "KEY_RED", isFixed |-> Undefined])
  @@ ("key-yellow" :> [type |-> "KEY_YELLOW", isFixed |-> Undefined])
  @@ ("key_blue" :> [type |-> "KEY_BLUE", isFixed |-> Undefined])
  @@ ("key_green" :> [type |-> "KEY_GREEN", isFixed |-> Undefined])
  @@ ("key_red" :> [type |-> "KEY_RED", isFixed |-> Undefined])
  @@ ("key_yellow" :> [type |-> "KEY_YELLOW", isFixed |-> Undefined])
  @@ ("keyblue" :> [type |-> "KEY_BLUE", isFixed |-> Undefined])
  @@ ("keygreen" :> [type |-> "KEY_GREEN", isFixed |-> Undefined])
  @@ ("keyred" :> [type |-> "KEY_RED", isFixed |-> Undefined])
  @@ ("keyyellow" :> [type |-> "KEY_YELLOW", isFixed |-> Undefined])
  @@ ("p" :> [type |-> "EMPTY", isFixed |-> Undefined])
  @@ ("portal" :> [type |-> "PORTAL_A", isFixed |-> Undefined])
  @@ ("portal a" :> [type |-> "PORTAL_A", isFixed |-> Undefined])
  @@ ("portal b" :> [type |-> "PORTAL_B", isFixed |-> Undefined])
  @@ ("portal-a" :> [type |-> "PORTAL_A", isFixed |-> Undefined])
  @@ ("portal-b" :> [type |-> "PORTAL_B", isFixed |-> Undefined])
  @@ ("portal_a" :> [type |-> "PORTAL_A", isFixed |-> Undefined])
  @@ ("portal_b" :> [type |-> "PORTAL_B", isFixed |-> Undefined])
  @@ ("portala" :> [type |-> "PORTAL_A", isFixed |-> Undefined])
  @@ ("portalb" :> [type |-> "PORTAL_B", isFixed |-> Undefined])
  @@ ("trap" :> [type |-> "TRAP", isFixed |-> Undefined])
  @@ ("w" :> [type |-> "WALL", isFixed |-> Undefined])
  @@ ("wall" :> [type |-> "WALL", isFixed |-> Undefined])
  @@ ("x" :> [type |-> "BLOCK", isFixed |-> Undefined])

\* The raw strings that are valid tile names in some letter case or with
\* spaces or hyphens as delimiters, or one of the listed spellings as written.
ListedSpellings ==
  {"!",
   "#",
   "BLOCK",
   "BOX",
   "Block",
   "CRATE",
   "DOOR BLUE",
   "DOOR GREEN",
   "DOOR RED",
   "DOOR YELLOW",
   "DOOR-BLUE",
   "DOOR-GREEN",
   "DOOR-RED",
   "DOOR-YELLOW",
   "DOORBLUE",
   "DOORGREEN",
   "DOORRED",
   "DOORYELLOW",
   "DOOR_BLUE",
   "DOOR_GREEN",
   "DOOR_RED",
   "DOOR_YELLOW",
   "Door_blue",
   "Door_green",
   "Door_red",
   "Door_yellow",
   "EMPTY",
   "F",
   "FIXED_BLOCK",
   "G",
   "GOAL",
   "Goal",
   "KEY BLUE",
   "KEY GREEN",
   "KEY RED",
   "KEY YELLOW",
   "KEY-BLUE",
   "KEY-GREEN",
   "KEY-RED",
   "KEY-YELLOW",
   "KEYBLUE",
   "KEYGREEN",
   "KEYRED",
   "KEYYELLOW",
   "KEY_BLUE",
   "KEY_GREEN",
   "KEY_RED",
   "KEY_YELLOW",
   "Key_blue",
   "Key_green",
   "Key_red",
   "Key_yellow",
   "PORTAL",
   "PORTAL A",
   "PORTAL B",
   "PORTAL-A",
   "PORTAL-B",
   "PORTALA",
   "PORTALB",
   "PORTAL_A",
   "PORTAL_B",
   "Portal_a",
   "Portal_b",
   "TRAP",
   "Trap",
   "W",
   "WALL",
   "Wall",
   "X",
   "block",
   "door blue",
   "door green",
   "door red",
   "door yellow",
   "door-blue",
   "door-green",
   "door-red",
   "door-yellow",
   "door_blue",
   "door_green",
   "door_red",
   "door_yellow",
   "goal",
   "key blue",
   "key green",
   "key red",
   "key yellow",
   "key-blue",
   "key-green",
   "key-red",
   "key-yellow",
   "key_blue",
   "key_green",
   "key_red",
   "key_yellow",
   "portal a",
   "portal b",
   "portal-a",
   "portal-b",
   "portal_a",
   "portal_b",
   "trap",
   "wall"}

\* The last call was normalizeTileType.
Normalized == call.fn = "normalizeTileType"

\* C33 as stated: null and undefined map to EMPTY, valid tile names pass
\* through in any letter case and with spaces or hyphens as delimiters, the
\* listed spellings map as the table says, and every other string maps to
\* EMPTY.
C33_TableAsStated ==
  Normalized =>
    returned[1] =
      IF input \in ListedSpellings
      THEN ExpectedTile[input]
      ELSE [type |-> "EMPTY", isFixed |-> Undefined]

\* C33: null and undefined map to EMPTY; every string is trimmed, has its
\* runs of spaces and hyphens replaced by an underscore and is upper-cased
\* before it is looked up, so that valid tile names and the listed spellings
\* are recognized in any letter case, with either delimiter and with
\* surrounding spaces; every string not recognized so maps to EMPTY.
C33_NormalizationTable ==
  Normalized =>
    returned[1] =
      IF input \in {"null", Undefined}
      THEN [type |-> "EMPTY", isFixed |-> Undefined]
      ELSE ExpectedTile[input]

\* A listed spelling in lower case is recognized.
C33_Witness ==
  /\ Normalized
  /\ input = "crate"
  /\ returned[1] = [type |-> "BLOCK", isFixed |-> Undefined]

-----------------------------------------------------------------------------
(* C34: a batch stops at the terminal state                                *)

\* A batch has been queued and the game is done.
DoneInBatch == gameState.done /\ plannedMoves # <<>>

\* The step taken with the game done and a queued move left: the move is
\* refused without a call of the engine and marked failed, and the batch stops.
RefusedAndStopped ==
  /\ call'.fn = "handleAIAction"
  /\ plannedMoves' = [plannedMoves EXCEPT ![moveIndex + 1] = "failed"]
  /\ moveIndex' = moveIndex
  /\ ~isRunning'

\* C34: when the game is done while a batch runs, the next queued move is
\* refused and marked failed, the batch stops, no later queued move reaches
\* the engine, and no step of the batch changes the game state any more.
C34_BatchStopsAtTerminal ==
  [][DoneInBatch =>
       /\ gameState' = gameState
       /\ (isRunning /\ moveIndex < Len(moves)) => RefusedAndStopped
       /\ ~isRunning => UNCHANGED <<call, plannedMoves, moveIndex, isRunning>>]_vars

\* A game won by the first move of a batch, whose second move was refused
\* and whose third is still pending.
C34_Witness ==
  /\ gameState.done
  /\ gameState.success
  /\ ~isRunning
  /\ Len(moves) = 3
  /\ plannedMoves = <<"success", "failed", "pending">>
  /\ call.fn = "handleAIAction"
  /\ gameState.turn = 1

-----------------------------------------------------------------------------
(* C35: the history is as long as the turn                                 *)

\* The record the last call appended.
LastRecord == gameState.moveHistory[Len(gameState.moveHistory)]

\* C35: under legal actions, undoMove and resetGame the turn equals the
\* length of the move history, and every legal action on an Active state, a
\* no-op included, appends exactly one MoveRecord whose previousPlayerPos,
\* previousGrid and previousInventory are those of the state before it.
C35_HistoryTracksTurn ==
  /\ gameState.turn = Len(gameState.moveHistory)
  /\ ActedOnActive =>
       /\ Len(gameState.moveHistory) = Len(input.moveHistory) + 1
       /\ SubSeq(gameState.moveHistory, 1, Len(input.moveHistory)) = input.moveHistory
       /\ LastRecord.action = call.action
       /\ LastRecord.previousPlayerPos = input.playerPosition
       /\ LastRecord.previousGrid = input.grid
       /\ LastRecord.previousInventory = input.inventory

\* A move into a wall after a key was collected: a no-op that is recorded
\* with the board as it was.
C35_Witness ==
  /\ ActedOnActive
  /\ call.action \in MoveDirection
  /\ gameState.grid = input.grid
  /\ gameState.playerPosition = input.playerPosition
  /\ input.inventory.keys # <<>>
  /\ gameState.turn = 3
  /\ Len(gameState.moveHistory) = 3
  /\ LastRecord.previousInventory = input.inventory

-----------------------------------------------------------------------------
(* C36: the tile changes an action can make                                *)

\* A tile change that one executeAction call may make to a cell.
AllowedTransition(old, new) ==
  \/ IsKey(old.type) /\ new.type = "EMPTY"
  \/ IsDoor(old.type) /\ new.type = "EMPTY"
  \/ IsLooseBlock(old) /\ new.type = "EMPTY"
  \/ old.type = "EMPTY" /\ IsLooseBlock(new)
  \/ old.type = "TRAP" /\ new.type = "EMPTY"

\* C36: every cell an executeAction call changes goes from KEY to EMPTY, DOOR
\* to EMPTY, BLOCK to EMPTY, EMPTY to BLOCK or TRAP to EMPTY, so that WALL,
\* GOAL, PORTAL and fixed-BLOCK tiles never change; the grid keeps its
\* dimensions and at most two cells change.
C36_AllowedTransitions ==
  call.fn = "executeAction" =>
    /\ \A p \in ChangedCells : AllowedTransition(TileAt(input, p), TileAt(gameState, p))
    /\ \A p \in Cells(input) :
         (TileAt(input, p).type \in {"WALL", "GOAL", "PORTAL_A", "PORTAL_B"}
            \/ IsFixedBlock(TileAt(input, p)))
           => TileAt(gameState, p) = TileAt(input, p)
    /\ gameState.gridSize = input.gridSize
    /\ Len(gameState.grid) = Len(input.grid)
    /\ \A y \in 1..Len(input.grid) : Len(gameState.grid[y]) = Len(input.grid[y])
    /\ Cardinality(ChangedCells) <= 2

\* A block pushed onto a trap changes two cells: the block's and the trap's.
C36_Witness ==
  /\ ActedOnActive
  /\ Cardinality(ChangedCells) = 2
  /\ \E p \in ChangedCells : TileAt(input, p).type = "TRAP" /\ TileAt(gameState, p).type = "EMPTY"
  /\ \E p \in ChangedCells : IsLooseBlock(TileAt(input, p)) /\ TileAt(gameState, p).type = "EMPTY"

\* The player has gone through a portal.
C36_Teleported ==
  /\ LegalOnActive
  /\ LastRecord.teleported
  /\ ChangedCells = {}

-----------------------------------------------------------------------------
(* C37: keys are conserved                                                 *)

\* The number of KEY tiles of colour c in the grid of state.
KeyTiles(state, c) ==
  Cardinality({p \in Cells(state) : IsKey(TileAt(state, p).type)
                                      /\ getKeyColor(TileAt(state, p).type) = c})

\* 1 when colour c is in the inventory of state, else 0.
KeysHeld(state, c) == IF includes(state.inventory.keys, c) THEN 1 ELSE 0

\* C37: for each colour the KEY tiles in the grid plus the key held make up
\* the KEY tiles of the initial grid; a colour enters the inventory exactly
\* when one key tile of that colour leaves the grid, and an action takes a
\* key tile off the grid in no other way.
C37_KeyConservation ==
  \A c \in KeyColor :
    /\ KeyTiles(gameState, c) + KeysHeld(gameState, c) = KeyTiles(createGame(gameState.level), c)
    /\ call.fn = "executeAction" =>
         /\ KeyTiles(input, c) - KeyTiles(gameState, c) = KeysHeld(gameState, c) - KeysHeld(input, c)
         /\ KeysHeld(gameState, c) >= KeysHeld(input, c)

\* With one red key held, the player stands on the second red key of the
\* level, which stays on the grid.
C37_Witness ==
  /\ MovedOntoKey
  /\ KeysHeld(input, "RED") = 1
  /\ KeyTiles(gameState, "RED") = 1
  /\ KeyTiles(createGame(gameState.level), "RED") = 2
  /\ IsKey(TileAt(gameState, gameState.playerPosition).type)

====
